---- MODULE Spec2Model ----
(***************************************************************************)
(* Pin-multiplexing / pin-configuration register model of the Tegra        *)
(* pinctrl driver (pinctrl-tegra234.c).                                    *)
(*                                                                         *)
(* A u32 register value is the set of its set bit positions (a subset of   *)
(* 0..31): & is intersection, | is union, ~ is complement in 0..31 and a   *)
(* left shift moves positions and drops those that leave the word.         *)
(* Small unsigned quantities (arguments, field values, packed configs)     *)
(* are integers.                                                           *)
(***************************************************************************)
EXTENDS Integers, Sequences, FiniteSets, TLC

VARIABLES soc, phase, regs, last, prev, nops,
          gpio_conf, backup_regs, func_groups, seen, race

vars == <<soc, phase, regs, last, prev, nops,
          gpio_conf, backup_regs, func_groups, seen, race>>

(***************************************************************************)
(* Bounds of the exploration.                                              *)
(***************************************************************************)
\* operations served after probe in the sequence specification
MaxSeqOps == 2
\* requests served while a pin is held as GPIO or the controller sleeps
MaxLifeOps == 1
\* longest configuration list handed to pin_config_group_set
MaxConfigs == 3

\* the longest list of groups under nvidia,pins
MaxPins == 2
\* failed calls of probe before the one that succeeds
MaxProbeFails == 2

(***************************************************************************)
(* Word arithmetic.                                                        *)
(***************************************************************************)
WordBits == 0..31

BIT(n) == {n}

\* x << n on a u32
Shl(x, n) == {b + n : b \in x} \cap WordBits

\* x >> n on a u32
Shr(x, n) == {b - n : b \in {c \in x : c >= n}}

\* ~x on a u32
Not32(x) == WordBits \ x

\* the bits of a non-negative integer below 2^31
ToBits(n) == {b \in 0..30 : (n \div (2^b)) % 2 = 1}

RECURSIVE FromBits(_)
FromBits(x) ==
  IF x = {} THEN 0
  ELSE LET b == CHOOSE c \in x : TRUE IN (2^b) + FromBits(x \ {b})

\* mask = (1 << width) - 1
Mask(width) == {b \in WordBits : b < width}

\* conversion of a value to u16
U16(x) == x \cap (0..15)

(***************************************************************************)
(* Packed configuration items.                                             *)
(***************************************************************************)
\* enum tegra_pinconf_param, in declaration order
ParamOrder ==
  << "PULL", "TRISTATE", "ENABLE_INPUT", "OPEN_DRAIN", "LOCK", "IORESET",
     "RCV_SEL", "LOOPBACK", "HIGH_SPEED_MODE", "SCHMITT", "LOW_POWER_MODE",
     "DRIVE_DOWN_STRENGTH", "DRIVE_UP_STRENGTH", "SLEW_RATE_FALLING",
     "SLEW_RATE_RISING", "DRIVE_TYPE", "FUNCTION", "PAD_POWER" >>

Params == {ParamOrder[i] : i \in DOMAIN ParamOrder}

ParamCode(p) == (CHOOSE i \in DOMAIN ParamOrder : ParamOrder[i] = p) - 1

ParamOfCode(c) ==
  IF c + 1 \in DOMAIN ParamOrder THEN ParamOrder[c + 1] ELSE "INVALID"

\* ((_param_) << 16 | (_arg_))
TEGRA_PINCONF_PACK(code, arg) ==
  FromBits({b + 16 : b \in ToBits(code)} \cup ToBits(arg))

\* ((_conf_) >> 16)
TEGRA_PINCONF_UNPACK_PARAM(conf) == conf \div 65536

\* ((_conf_) & 0xffff)
TEGRA_PINCONF_UNPACK_ARG(conf) == conf % 65536

(***************************************************************************)
(* Static pin / group / function catalog.                                  *)
(***************************************************************************)
\* a struct tegra_pingroup with no member initialised (static storage)
ZeroGroup ==
  [ name |-> "", pins |-> << >>, npins |-> 0, funcs |-> <<"", "", "", "">>,
    mux_reg |-> 0, mux_bank |-> 0, mux_bit |-> 0,
    pupd_reg |-> 0, pupd_bank |-> 0, pupd_bit |-> 0,
    tri_reg |-> 0, tri_bank |-> 0, tri_bit |-> 0,
    einput_bit |-> 0, odrain_bit |-> 0, lock_bit |-> 0, ioreset_bit |-> 0,
    rcv_sel_bit |-> 0,
    lpbk_reg |-> 0, lpbk_bank |-> 0, lpbk_bit |-> 0,
    hsm_bit |-> 0, schmitt_bit |-> 0, lpmd_bit |-> 0,
    drv_reg |-> 0, drv_bank |-> 0,
    drvdn_bit |-> 0, drvdn_width |-> 0, drvup_bit |-> 0, drvup_width |-> 0,
    slwf_bit |-> 0, slwf_width |-> 0, slwr_bit |-> 0, slwr_width |-> 0,
    drvtype_bit |-> 0, sfsel_bit |-> 0,
    pad_reg |-> 0, pad_bank |-> 0, pad_bit |-> 0,
    parked_bitmask |-> {} ]

PINGROUP_REG_Y(r) == r

PINGROUP_REG_N(r) == -1

DRV_PINGROUP_ENTRY_N ==
  [ drv_reg |-> -1, drv_bank |-> -1, drvdn_bit |-> -1, drvup_bit |-> -1,
    slwr_bit |-> -1, slwf_bit |-> -1 ]

DRV_PINGROUP_ENTRY_Y(r, drvdn_b, drvdn_w, drvup_b, drvup_w, slwr_b, slwr_w, slwf_b, slwf_w, bank) ==
  [ drv_reg |-> r, drv_bank |-> bank,
    drvdn_bit |-> drvdn_b, drvdn_width |-> drvdn_w,
    drvup_bit |-> drvup_b, drvup_width |-> drvup_w,
    slwr_bit |-> slwr_b, slwr_width |-> slwr_w,
    slwf_bit |-> slwf_b, slwf_width |-> slwf_w ]

\* pupd is TRUE for Y and FALSE for N
PIN_PINGROUP_ENTRY_Y(r, bank, pupd, e_io_hv, e_lpbk, e_input, e_lpdr, e_pbias_buf, gpio_sfio_sel, schmitt_b) ==
  [ mux_reg |-> PINGROUP_REG_Y(r), lpmd_bit |-> -1, lock_bit |-> -1,
    hsm_bit |-> -1, mux_bank |-> bank, mux_bit |-> 0,
    pupd_reg |-> IF pupd THEN PINGROUP_REG_Y(r) ELSE PINGROUP_REG_N(r),
    pupd_bank |-> bank, pupd_bit |-> 2,
    tri_reg |-> PINGROUP_REG_Y(r), tri_bank |-> bank, tri_bit |-> 4,
    einput_bit |-> e_input, sfsel_bit |-> gpio_sfio_sel,
    schmitt_bit |-> schmitt_b, drvtype_bit |-> 13,
    drv_reg |-> -1,
    lpbk_reg |-> PINGROUP_REG_Y(r), lpbk_bank |-> bank, lpbk_bit |-> e_lpbk ]

\* later designated initialisers override earlier ones; the rest stays zero
PINGROUP(pg_name, pin, f0, f1, f2, f3, r, bank, pupd, e_io_hv, e_lpbk, e_input, e_lpdr, e_pbias_buf, gpio_sfio_sel, schmitt_b, drive) ==
  drive
  @@ PIN_PINGROUP_ENTRY_Y(r, bank, pupd, e_io_hv, e_lpbk, e_input, e_lpdr,
                          e_pbias_buf, gpio_sfio_sel, schmitt_b)
  @@ [ name |-> pg_name, pins |-> <<pin>>, npins |-> 1,
       funcs |-> <<f0, f1, f2, f3>> ]
  @@ ZeroGroup

\* DRV_PINGROUP_ENTRY_Y(0x2004, 12, 5, 20, 5, -1, -1, -1, -1, 1)
drive_touch_clk_pcc4 ==
  DRV_PINGROUP_ENTRY_Y(8196, 12, 5, 20, 5, -1, -1, -1, -1, 1)

\* DRV_PINGROUP_ENTRY_Y(0x0004, 12, 5, 20, 5, -1, -1, -1, -1, 0)
drive_extperiph2_clk_pp1 ==
  DRV_PINGROUP_ENTRY_Y(4, 12, 5, 20, 5, -1, -1, -1, -1, 0)

drive_eqos_comp == DRV_PINGROUP_ENTRY_N

\* rows of tegra234_groups[]: touch_clk_pcc4 (0x2000, bank 1),
\* extperiph2_clk_pp1 (0x0000, bank 0) and eqos_comp (0x15050, bank 0)
tegra234_groups ==
  << PINGROUP("touch_clk_pcc4", 201, "gp", "touch", "rsvd2", "rsvd3",
              8192, 1, TRUE, 5, 7, 6, 8, -1, 10, 12, drive_touch_clk_pcc4),
     PINGROUP("extperiph2_clk_pp1", 93, "extperiph2", "rsvd1", "rsvd2",
              "rsvd3", 0, 0, TRUE, -1, 7, 6, 8, -1, 10, 12,
              drive_extperiph2_clk_pp1),
     PINGROUP("eqos_comp", 217, "eqos", "rsvd1", "rsvd2", "rsvd3",
              86096, 0, FALSE, -1, -1, -1, -1, -1, -1, -1, drive_eqos_comp) >>

\* entries of tegra234_functions[] used by the rows above, and can0
tegra234_functions ==
  << "gp", "can0", "eqos", "extperiph2", "touch", "rsvd1", "rsvd2", "rsvd3" >>

tegra234_pinctrl ==
  [ groups |-> tegra234_groups, functions |-> tegra234_functions,
    hsm_in_mux |-> FALSE, schmitt_in_mux |-> TRUE,
    drvtype_in_mux |-> TRUE, sfsel_in_mux |-> TRUE ]

\* A catalog of an earlier chip generation served by the same engine: a pin
\* group with a lock bit and a parked bit, a pin group without them, and a
\* two-pin drive group that has no mux register.
generic_groups ==
  << [ name |-> "pin_a", pins |-> <<0>>, npins |-> 1,
       funcs |-> <<"fa", "fb", "fc", "fd">>,
       mux_reg |-> 12288, mux_bank |-> 1, mux_bit |-> 0,
       pupd_reg |-> 12288, pupd_bank |-> 1, pupd_bit |-> 2,
       tri_reg |-> 12288, tri_bank |-> 1, tri_bit |-> 4,
       einput_bit |-> 6, odrain_bit |-> 11, lock_bit |-> 7,
       ioreset_bit |-> -1, rcv_sel_bit |-> 10,
       lpbk_reg |-> -1, lpbk_bank |-> -1, lpbk_bit |-> -1,
       hsm_bit |-> 9, schmitt_bit |-> -1, lpmd_bit |-> -1,
       drvtype_bit |-> -1, sfsel_bit |-> -1,
       pad_reg |-> -1, pad_bank |-> -1, pad_bit |-> -1,
       parked_bitmask |-> BIT(5) ] @@ DRV_PINGROUP_ENTRY_N @@ ZeroGroup,
     [ name |-> "pin_b", pins |-> <<1>>, npins |-> 1,
       funcs |-> <<"fb", "fc", "fd", "fe">>,
       mux_reg |-> 12292, mux_bank |-> 1, mux_bit |-> 0,
       pupd_reg |-> 12292, pupd_bank |-> 1, pupd_bit |-> 2,
       tri_reg |-> 12292, tri_bank |-> 1, tri_bit |-> 4,
       einput_bit |-> 6, odrain_bit |-> -1, lock_bit |-> -1,
       ioreset_bit |-> 8, rcv_sel_bit |-> -1,
       lpbk_reg |-> -1, lpbk_bank |-> -1, lpbk_bit |-> -1,
       hsm_bit |-> -1, schmitt_bit |-> -1, lpmd_bit |-> -1,
       drvtype_bit |-> -1, sfsel_bit |-> -1,
       pad_reg |-> 12292, pad_bank |-> 1, pad_bit |-> 14,
       parked_bitmask |-> {} ] @@ DRV_PINGROUP_ENTRY_N @@ ZeroGroup,
     [ name |-> "drive_c", pins |-> <<2, 3>>, npins |-> 2,
       funcs |-> <<"fa", "fa", "fa", "fa">>,
       mux_reg |-> -1, mux_bank |-> -1, mux_bit |-> -1,
       pupd_reg |-> -1, pupd_bank |-> -1, pupd_bit |-> -1,
       tri_reg |-> -1, tri_bank |-> -1, tri_bit |-> -1,
       einput_bit |-> -1, odrain_bit |-> -1, lock_bit |-> -1,
       ioreset_bit |-> -1, rcv_sel_bit |-> -1,
       lpbk_reg |-> -1, lpbk_bank |-> -1, lpbk_bit |-> -1,
       hsm_bit |-> 2, schmitt_bit |-> 3, lpmd_bit |-> 4,
       drvtype_bit |-> 6, sfsel_bit |-> -1,
       pad_reg |-> -1, pad_bank |-> -1, pad_bit |-> -1,
       parked_bitmask |-> {b \in WordBits : b >= 14 /\ b <= 26} ]
     @@ DRV_PINGROUP_ENTRY_Y(2260, 12, 5, 20, 5, 28, 2, 30, 2, 0)
     @@ ZeroGroup >>

generic_functions == << "fa", "fb", "fc", "fd", "fe" >>

generic_pinctrl ==
  [ groups |-> generic_groups, functions |-> generic_functions,
    hsm_in_mux |-> TRUE, schmitt_in_mux |-> FALSE,
    drvtype_in_mux |-> FALSE, sfsel_in_mux |-> FALSE ]

Socs == {"tegra234", "generic"}

\* pmx->soc
SocData(s) == IF s = "tegra234" THEN tegra234_pinctrl ELSE generic_pinctrl

Groups(s) == DOMAIN SocData(s).groups

Functions(s) ==
  {SocData(s).functions[i] : i \in DOMAIN SocData(s).functions}

\* the registers behind pmx->regs[bank] + reg that the catalog can reach
RegAddrs(s) ==
  { a \in UNION { { <<SocData(s).groups[g].mux_bank,
                      SocData(s).groups[g].mux_reg>>,
                    <<SocData(s).groups[g].drv_bank,
                      SocData(s).groups[g].drv_reg>>,
                    <<SocData(s).groups[g].pupd_bank,
                      SocData(s).groups[g].pupd_reg>>,
                    <<SocData(s).groups[g].tri_bank,
                      SocData(s).groups[g].tri_reg>>,
                    <<SocData(s).groups[g].lpbk_bank,
                      SocData(s).groups[g].lpbk_reg>>,
                    <<SocData(s).groups[g].pad_bank,
                      SocData(s).groups[g].pad_reg>> } : g \in Groups(s) }
    : a[2] >= 0 }

(***************************************************************************)
(* Register access port.  Every access is logged: <<"r", bank, reg>> for   *)
(* a read and <<"w", bank, reg, val>> for a write.                         *)
(***************************************************************************)
\* readl(pmx->regs[bank] + reg)
pmx_readl(rg, bank, reg) == rg[<<bank, reg>>]

pmx_readl_io(bank, reg) == << <<"r", bank, reg>> >>

\* writel_relaxed(val, ...) followed by the completing read
pmx_writel(rg, val, bank, reg) == [rg EXCEPT ![<<bank, reg>>] = val]

\* a write that is not read back
pmx_writel_io_posted(val, bank, reg) == << <<"w", bank, reg, val>> >>

pmx_writel_io(val, bank, reg) == << <<"w", bank, reg, val>>, <<"r", bank, reg>> >>

Writes(io) == {i \in DOMAIN io : io[i][1] = "w"}

Reads(io) == {i \in DOMAIN io : io[i][1] = "r"}

(***************************************************************************)
(* Configuration parameter registry.                                       *)
(***************************************************************************)
Loc(bank, reg, bit, width) ==
  [bank |-> bank, reg |-> reg, bit |-> bit, width |-> width]

\* the switch of tegra_pinconf_reg
pinconf_reg_select(sd, g, param) ==
  CASE param = "PULL" -> Loc(g.pupd_bank, g.pupd_reg, g.pupd_bit, 2)
    [] param = "TRISTATE" -> Loc(g.tri_bank, g.tri_reg, g.tri_bit, 1)
    [] param = "ENABLE_INPUT" -> Loc(g.mux_bank, g.mux_reg, g.einput_bit, 1)
    [] param = "OPEN_DRAIN" -> Loc(g.mux_bank, g.mux_reg, g.odrain_bit, 1)
    [] param = "LOCK" -> Loc(g.mux_bank, g.mux_reg, g.lock_bit, 1)
    [] param = "IORESET" -> Loc(g.mux_bank, g.mux_reg, g.ioreset_bit, 1)
    [] param = "RCV_SEL" -> Loc(g.mux_bank, g.mux_reg, g.rcv_sel_bit, 1)
    [] param = "LOOPBACK" -> Loc(g.lpbk_bank, g.lpbk_reg, g.lpbk_bit, 1)
    [] param = "HIGH_SPEED_MODE" ->
         IF sd.hsm_in_mux THEN Loc(g.mux_bank, g.mux_reg, g.hsm_bit, 1)
         ELSE Loc(g.drv_bank, g.drv_reg, g.hsm_bit, 1)
    [] param = "SCHMITT" ->
         IF sd.schmitt_in_mux THEN Loc(g.mux_bank, g.mux_reg, g.schmitt_bit, 1)
         ELSE Loc(g.drv_bank, g.drv_reg, g.schmitt_bit, 1)
    [] param = "LOW_POWER_MODE" -> Loc(g.drv_bank, g.drv_reg, g.lpmd_bit, 2)
    [] param = "DRIVE_DOWN_STRENGTH" ->
         Loc(g.drv_bank, g.drv_reg, g.drvdn_bit, g.drvdn_width)
    [] param = "DRIVE_UP_STRENGTH" ->
         Loc(g.drv_bank, g.drv_reg, g.drvup_bit, g.drvup_width)
    [] param = "SLEW_RATE_FALLING" ->
         Loc(g.drv_bank, g.drv_reg, g.slwf_bit, g.slwf_width)
    [] param = "SLEW_RATE_RISING" ->
         Loc(g.drv_bank, g.drv_reg, g.slwr_bit, g.slwr_width)
    [] param = "DRIVE_TYPE" ->
         IF sd.drvtype_in_mux THEN Loc(g.mux_bank, g.mux_reg, g.drvtype_bit, 2)
         ELSE Loc(g.drv_bank, g.drv_reg, g.drvtype_bit, 2)
    [] param = "FUNCTION" -> Loc(g.mux_bank, g.mux_reg, g.mux_bit, 2)
    [] param = "PAD_POWER" -> Loc(g.pad_bank, g.pad_reg, g.pad_bit, 1)

\* a lookup that tests the register only
pinconf_reg_absent_reg_only(loc) == loc.reg < 0

\* if (*reg < 0 || *bit < 0)
pinconf_reg_absent(loc) == loc.reg < 0 \/ loc.bit < 0

\* a lookup that reads the three catalog flags the wrong way round
tegra_pinconf_reg_flags_swapped(sd, g, param, report_err) ==
  IF param \notin Params
  THEN [ret |-> "ENOTSUPP", msg |-> "Invalid config param"]
       @@ Loc(-1, -1, -1, -1)
  ELSE LET ds == [sd EXCEPT !.hsm_in_mux = ~@, !.schmitt_in_mux = ~@,
                            !.drvtype_in_mux = ~@]
           loc == pinconf_reg_select(ds, g, param)
       IN IF pinconf_reg_absent(loc)
          THEN [ret |-> "ENOTSUPP",
                msg |-> IF report_err THEN "not supported on group" ELSE ""]
               @@ loc
          ELSE [ret |-> "OK", msg |-> ""] @@ loc

tegra_pinconf_reg(sd, g, param, report_err) ==
  IF param \notin Params
  THEN [ret |-> "ENOTSUPP", msg |-> "Invalid config param"]
       @@ Loc(-1, -1, -1, -1)
  ELSE LET loc == pinconf_reg_select(sd, g, param)
       IN IF pinconf_reg_absent(loc)
          THEN [ret |-> "ENOTSUPP",
                msg |-> IF report_err THEN "not supported on group" ELSE ""]
               @@ loc
          ELSE [ret |-> "OK", msg |-> ""] @@ loc

(***************************************************************************)
(* Results of a handler: return code, logged message, out-parameter, the   *)
(* registers afterwards and the register accesses it made.                 *)
(***************************************************************************)
Result(ret, msg, out, rg, io) ==
  [ret |-> ret, msg |-> msg, out |-> out, regs |-> rg, io |-> io]

\* the C operator !
LogicalNot(x) == IF x = 0 THEN 1 ELSE 0

(***************************************************************************)
(* Mux resolution engine.                                                  *)
(***************************************************************************)
\* a scan that counts slots from one
mux_slot_from_one(g, function) ==
  IF \E i \in 1..4 : g.funcs[i] = function
  THEN CHOOSE i \in 1..4 : /\ g.funcs[i] = function
                           /\ \A j \in 1..(i - 1) : g.funcs[j] # function
  ELSE 4

\* a scan that falls back to slot 0 when nothing matches
mux_slot_or_zero(g, function) ==
  IF \E i \in 1..4 : g.funcs[i] = function
  THEN (CHOOSE i \in 1..4 : /\ g.funcs[i] = function
                            /\ \A j \in 1..(i - 1) : g.funcs[j] # function) - 1
  ELSE 0

\* the scan of g->funcs[]: the first matching index, ARRAY_SIZE when none
mux_slot(g, function) ==
  IF \E i \in 1..4 : g.funcs[i] = function
  THEN (CHOOSE i \in 1..4 : /\ g.funcs[i] = function
                            /\ \A j \in 1..(i - 1) : g.funcs[j] # function) - 1
  ELSE 4

\* val = i << g->mux_bit, the bits read not kept
mux_field_write_whole(val, i, mux_bit) == Shl(ToBits(i), mux_bit)

\* val &= ~(0x3 << g->mux_bit); val |= i << g->mux_bit
mux_field_write(val, i, mux_bit) ==
  (val \ Shl(ToBits(3), mux_bit)) \cup Shl(ToBits(i), mux_bit)

\* (1 << g->sfsel_bit): a negative shift count is undefined; the shifter
\* takes the count modulo 32 or the result is 0
sfsel_mask(sfsel_bit) ==
  IF sfsel_bit >= 0 THEN {BIT(sfsel_bit)} ELSE {BIT(31), {}}

\* the set of results the call can produce
tegra_pinctrl_set_mux(sd, function, group, rg) ==
  LET g == sd.groups[group]
      i == mux_slot(g, function)
  IN IF g.mux_reg < 0
     THEN {Result("EINVAL", "WARN_ON(g->mux_reg < 0)", -1, rg, << >>)}
     ELSE IF i = 4
     THEN {Result("EINVAL", "WARN_ON(i == ARRAY_SIZE(g->funcs))", -1, rg,
                  << >>)}
     ELSE { LET val0 == pmx_readl(rg, g.mux_bank, g.mux_reg)
                val1 == mux_field_write(val0, i, g.mux_bit)
                val2 == IF sd.sfsel_in_mux THEN val1 \cup m ELSE val1
            IN Result("OK", "", -1,
                      pmx_writel(rg, val2, g.mux_bank, g.mux_reg),
                      pmx_readl_io(g.mux_bank, g.mux_reg)
                        \o pmx_writel_io(val2, g.mux_bank, g.mux_reg))
            : m \in sfsel_mask(g.sfsel_bit) }

(***************************************************************************)
(* Config get / set engine.                                                *)
(***************************************************************************)
\* a decoding that takes the argument from the parameter half
unpack_config_raw(config) ==
  [ code |-> TEGRA_PINCONF_UNPACK_PARAM(config),
    param |-> ParamOfCode(TEGRA_PINCONF_UNPACK_PARAM(config)),
    arg |-> FromBits(U16(ToBits(TEGRA_PINCONF_UNPACK_PARAM(config)))) ]

\* param = TEGRA_PINCONF_UNPACK_PARAM(config); u16 arg = ..._UNPACK_ARG(config)
unpack_config(config) ==
  [ code |-> TEGRA_PINCONF_UNPACK_PARAM(config),
    param |-> ParamOfCode(TEGRA_PINCONF_UNPACK_PARAM(config)),
    arg |-> FromBits(U16(ToBits(TEGRA_PINCONF_UNPACK_ARG(config)))) ]

\* mask = (1 << width) - 1; arg = (val >> bit) & mask, held in a u16
pinconf_extract(val, bit, width) ==
  FromBits(U16(Shr(val, bit) \cap Mask(width)))

\* pad power handled like every other parameter
pad_power_invert_none(param, arg) == arg

\* if (param == TEGRA_PINCONF_PARAM_PAD_POWER) arg = !arg
pad_power_invert(param, arg) ==
  IF param = "PAD_POWER" THEN LogicalNot(arg) ELSE arg

tegra_pinconf_group_get(sd, group, config, rg) ==
  LET g == sd.groups[group]
      c == unpack_config(config)
      loc == tegra_pinconf_reg(sd, g, c.param, TRUE)
  IN IF loc.ret # "OK"
     THEN Result(loc.ret, loc.msg, config, rg, << >>)
     ELSE LET val == pmx_readl(rg, loc.bank, loc.reg)
              arg == pad_power_invert(c.param,
                                      pinconf_extract(val, loc.bit, loc.width))
          IN Result("OK", "", TEGRA_PINCONF_PACK(c.code, arg), rg,
                    pmx_readl_io(loc.bank, loc.reg))

\* no lock test at all
lock_rejected_never(param, val, bit, arg) == FALSE

\* a lock test that rejects setting instead of clearing
lock_rejected_on_set(param, val, bit, arg) ==
  param = "LOCK" /\ (val \cap BIT(bit)) # {} /\ arg # 0

\* if (param == TEGRA_PINCONF_PARAM_LOCK) if ((val & BIT(bit)) && !arg)
lock_rejected(param, val, bit, arg) ==
  param = "LOCK" /\ (val \cap BIT(bit)) # {} /\ arg = 0

\* no coercion of Boolean values
bool_coerce_none(width, arg) == arg

\* if (width == 1) arg = !!arg
bool_coerce(width, arg) ==
  IF width = 1 THEN LogicalNot(LogicalNot(arg)) ELSE arg

\* a range check against a mask one bit too wide
range_rejected_wide(arg, width) ==
  (ToBits(arg) \cap Not32(Mask(width + 1))) # {}

\* mask = (1 << width) - 1; if (arg & ~mask)
range_rejected(arg, width) == (ToBits(arg) \cap Not32(Mask(width))) # {}

\* val |= arg << bit, the field not cleared first
update_field_no_clear(val, arg, bit, width) == val \cup Shl(ToBits(arg), bit)

\* val = arg << bit
update_field_overwrite(val, arg, bit, width) == Shl(ToBits(arg), bit)

\* val &= ~(mask << bit); val |= arg << bit
update_field(val, arg, bit, width) ==
  (val \cap Not32(Shl(Mask(width), bit))) \cup Shl(ToBits(arg), bit)

\* one iteration of the loop over configs[]
group_set_one(sd, g, config, rg) ==
  LET c == unpack_config(config)
      arg1 == pad_power_invert(c.param, c.arg)
      loc == tegra_pinconf_reg(sd, g, c.param, TRUE)
  IN IF loc.ret # "OK"
     THEN Result(loc.ret, loc.msg, -1, rg, << >>)
     ELSE LET val == pmx_readl(rg, loc.bank, loc.reg)
              rd == pmx_readl_io(loc.bank, loc.reg)
              arg2 == bool_coerce(loc.width, arg1)
              nv == update_field(val, arg2, loc.bit, loc.width)
          IN IF lock_rejected(c.param, val, loc.bit, arg1)
             THEN Result("EINVAL", "LOCK bit cannot be cleared", -1, rg, rd)
             ELSE IF range_rejected(arg2, loc.width)
             THEN Result("EINVAL", "too big for register", -1, rg, rd)
             ELSE Result("OK", "", -1,
                         pmx_writel(rg, nv, loc.bank, loc.reg),
                         rd \o pmx_writel_io(nv, loc.bank, loc.reg))

\* a loop that goes on to the next item after a failure
config_error_returns_never(ret) == FALSE

\* if (ret < 0) return ret;  and the two return -EINVAL of the loop body
config_error_returns(ret) == ret # "OK"

RECURSIVE group_set_from(_, _, _, _, _, _)
group_set_from(sd, g, configs, i, rg, io) ==
  IF i > Len(configs)
  THEN Result("OK", "", -1, rg, io)
  ELSE LET r == group_set_one(sd, g, configs[i], rg)
       IN IF config_error_returns(r.ret)
          THEN Result(r.ret, r.msg, -1, r.regs, io \o r.io)
          ELSE group_set_from(sd, g, configs, i + 1, r.regs, io \o r.io)

tegra_pinconf_group_set(sd, group, configs, rg) ==
  group_set_from(sd, sd.groups[group], configs, 1, rg, << >>)

(***************************************************************************)
(* Bootstrap: parked-bit clearing.                                         *)
(***************************************************************************)
\* if (g->mux_reg != -1) mux bank and register, else drive bank and register
parked_target(g) ==
  IF g.mux_reg # -1 THEN <<g.mux_bank, g.mux_reg>>
  ELSE <<g.drv_bank, g.drv_reg>>

\* val &= g->parked_bitmask
parked_clear_keep(val, parked_bitmask) == val \cap parked_bitmask

\* val &= ~g->parked_bitmask
parked_clear(val, parked_bitmask) == val \cap Not32(parked_bitmask)

RECURSIVE clear_parked_from(_, _, _, _)
clear_parked_from(sd, i, rg, io) ==
  IF i > Len(sd.groups)
  THEN Result("OK", "", -1, rg, io)
  ELSE LET g == sd.groups[i]
           t == parked_target(g)
           val == parked_clear(pmx_readl(rg, t[1], t[2]), g.parked_bitmask)
       IN IF g.parked_bitmask # {}
          THEN clear_parked_from(sd, i + 1, pmx_writel(rg, val, t[1], t[2]),
                                 io \o pmx_readl_io(t[1], t[2])
                                    \o pmx_writel_io(val, t[1], t[2]))
          ELSE clear_parked_from(sd, i + 1, rg, io)

tegra_pinctrl_clear_parked_bits(sd, rg) == clear_parked_from(sd, 1, rg, << >>)

(***************************************************************************)
(* The property table cfg_params[] and the debug dump of a group. A C      *)
(* string is the sequence of its characters.                               *)
(***************************************************************************)
CfgParam(property, param) == [property |-> property, param |-> param]

\* the first seven characters of every property name
nvidia_comma == <<"n", "v", "i", "d", "i", "a", ",">>

cfg_params ==
  <<
     CfgParam(nvidia_comma \o <<"p", "u", "l", "l">>,
              "PULL"),
     CfgParam(nvidia_comma \o <<"t", "r", "i", "s", "t", "a", "t", "e">>,
              "TRISTATE"),
     CfgParam(nvidia_comma \o <<"e", "n", "a", "b", "l", "e", "-", "i", "n", "p", "u", "t">>,
              "ENABLE_INPUT"),
     CfgParam(nvidia_comma \o <<"o", "p", "e", "n", "-", "d", "r", "a", "i", "n">>,
              "OPEN_DRAIN"),
     CfgParam(nvidia_comma \o <<"l", "o", "c", "k">>,
              "LOCK"),
     CfgParam(nvidia_comma \o <<"i", "o", "-", "r", "e", "s", "e", "t">>,
              "IORESET"),
     CfgParam(nvidia_comma \o <<"r", "c", "v", "-", "s", "e", "l">>,
              "RCV_SEL"),
     CfgParam(nvidia_comma \o <<"i", "o", "-", "h", "v">>,
              "RCV_SEL"),
     CfgParam(nvidia_comma \o <<"l", "o", "o", "p", "b", "a", "c", "k">>,
              "LOOPBACK"),
     CfgParam(nvidia_comma \o <<"h", "i", "g", "h", "-", "s", "p", "e", "e", "d", "-", "m", "o", "d", "e">>,
              "HIGH_SPEED_MODE"),
     CfgParam(nvidia_comma \o <<"s", "c", "h", "m", "i", "t", "t">>,
              "SCHMITT"),
     CfgParam(nvidia_comma \o <<"l", "o", "w", "-", "p", "o", "w", "e", "r", "-", "m", "o", "d", "e">>,
              "LOW_POWER_MODE"),
     CfgParam(nvidia_comma \o <<"p", "u", "l", "l", "-", "d", "o", "w", "n", "-", "s", "t", "r", "e", "n", "g", "t", "h">>,
              "DRIVE_DOWN_STRENGTH"),
     CfgParam(nvidia_comma \o <<"p", "u", "l", "l", "-", "u", "p", "-", "s", "t", "r", "e", "n", "g", "t", "h">>,
              "DRIVE_UP_STRENGTH"),
     CfgParam(nvidia_comma \o <<"s", "l", "e", "w", "-", "r", "a", "t", "e", "-", "f", "a", "l", "l", "i", "n", "g">>,
              "SLEW_RATE_FALLING"),
     CfgParam(nvidia_comma \o <<"s", "l", "e", "w", "-", "r", "a", "t", "e", "-", "r", "i", "s", "i", "n", "g">>,
              "SLEW_RATE_RISING"),
     CfgParam(nvidia_comma \o <<"d", "r", "i", "v", "e", "-", "t", "y", "p", "e">>,
              "DRIVE_TYPE"),
     CfgParam(nvidia_comma \o <<"f", "u", "n", "c">>,
              "FUNCTION"),
     CfgParam(nvidia_comma \o <<"p", "a", "d", "-", "p", "o", "w", "e", "r">>,
              "PAD_POWER") >>

\* strchr(s, ','): the index of the first comma, 0 when there is none
strchr_comma(str) ==
  IF \E i \in DOMAIN str : str[i] = ","
  THEN CHOOSE i \in DOMAIN str :
         str[i] = "," /\ \A j \in 1..(i - 1) : str[j] # ","
  ELSE 0

\* a strip that cuts nothing
strip_prefix_none(str) == str

\* if (!comma) return s; return comma + 1
strip_prefix(str) ==
  IF strchr_comma(str) = 0 THEN str
  ELSE SubSeq(str, strchr_comma(str) + 1, Len(str))

\* one seq_printf of the dump: "\n\t%s=%u", or "\n\t%s=%s" for the function
DumpEntry(name, val, text) == [name |-> name, val |-> val, text |-> text]

\* val >>= bit; val &= (1 << width) - 1, on a u32
dump_extract(val, bit, width) == FromBits(Shr(val, bit) \cap Mask(width))

\* a dump that prints no function name
dump_function_name_raw(g, val) == ""

\* pmx->soc->functions[g->funcs[val]].name
dump_function_name(g, val) == g.funcs[val + 1]

\* one iteration of the loop over cfg_params[]: the text printed and the
\* register read
dbg_show_one(sd, g, i, rg) ==
  LET loc == tegra_pinconf_reg(sd, g, cfg_params[i].param, FALSE)
      val == dump_extract(pmx_readl(rg, loc.bank, loc.reg), loc.bit, loc.width)
  IN IF loc.ret # "OK"
     THEN [out |-> << >>, io |-> << >>]
     ELSE [ out |-> << DumpEntry(strip_prefix(cfg_params[i].property), val,
                                 IF cfg_params[i].param = "FUNCTION"
                                 THEN dump_function_name(g, val) ELSE "") >>,
            io |-> pmx_readl_io(loc.bank, loc.reg) ]

RECURSIVE dbg_show_from(_, _, _, _)
dbg_show_from(sd, g, i, rg) ==
  IF i > Len(cfg_params) THEN [out |-> << >>, io |-> << >>]
  ELSE LET one == dbg_show_one(sd, g, i, rg)
           rest == dbg_show_from(sd, g, i + 1, rg)
       IN [out |-> one.out \o rest.out, io |-> one.io \o rest.io]

tegra_pinconf_group_dbg_show(sd, group, rg) ==
  LET d == dbg_show_from(sd, sd.groups[group], 1, rg)
  IN Result("OK", "", d.out, rg, d.io)

(***************************************************************************)
(* Device-tree subnode to pinctrl maps. A subnode is the optional function *)
(* name, what of_property_read_u32 returns for each row of cfg_params[],   *)
(* and the list of group names under nvidia,pins.                          *)
(***************************************************************************)
\* of_property_read_u32: -EINVAL for a missing property, another error for
\* one that cannot be read as a u32
PROP_MISSING == -1

PROP_UNREADABLE == -2

\* a loop that takes a row only when the row before it gave nothing
dt_row_read_first_alias(node, i) ==
  /\ node.props[i] >= 0
  /\ ~(i > 1 /\ cfg_params[i].param = cfg_params[i - 1].param
             /\ node.props[i - 1] >= 0)

\* if (!ret): the row was read
dt_row_read(node, i) == node.props[i] >= 0

\* the loop over cfg_params[]: pinctrl_utils_add_config appends
RECURSIVE dt_configs_from(_, _)
dt_configs_from(node, i) ==
  IF i > Len(cfg_params) THEN << >>
  ELSE (IF dt_row_read(node, i)
        THEN << TEGRA_PINCONF_PACK(ParamCode(cfg_params[i].param),
                                   node.props[i]) >>
        ELSE << >>) \o dt_configs_from(node, i + 1)

\* pinctrl_utils_add_map_mux and pinctrl_utils_add_map_configs
MuxMap(group, function) ==
  [type |-> "MUX_GROUP", group |-> group, function |-> function,
   configs |-> << >>]

ConfigsMap(group, configs) ==
  [type |-> "CONFIGS_GROUP", group |-> group, function |-> "",
   configs |-> configs]

\* of_property_for_each_string(np, "nvidia,pins", prop, group)
RECURSIVE dt_maps_from(_, _, _, _)
dt_maps_from(pins, k, function, configs) ==
  IF k > Len(pins) THEN << >>
  ELSE (IF function # "" THEN << MuxMap(pins[k], function) >> ELSE << >>)
       \o (IF configs # << >> THEN << ConfigsMap(pins[k], configs) >>
           ELSE << >>)
       \o dt_maps_from(pins, k + 1, function, configs)

\* reserve = ([function] + [num_configs]) * of_property_count_strings(...)
dt_reserve(node, configs) ==
  ((IF node.function # "" THEN 1 ELSE 0) + (IF configs # << >> THEN 1 ELSE 0))
    * Len(node.pins)

tegra_pinctrl_dt_subnode_to_map(node, rg) ==
  LET configs == dt_configs_from(node, 1)
  IN IF ~node.has_pins
     THEN Result("EINVAL", "could not parse property nvidia,pins",
                 [maps |-> << >>, reserved |-> 0], rg, << >>)
     ELSE Result("OK", "",
                 [maps |-> dt_maps_from(node.pins, 1, node.function, configs),
                  reserved |-> dt_reserve(node, configs)], rg, << >>)

(***************************************************************************)
(* GPIO request / release: the per-pin shadow pmx->gpio_conf[].            *)
(***************************************************************************)
\* a loop that does not look at the number of pins
gpio_group_any_size(sd, offset) ==
  IF \E i \in DOMAIN sd.groups : sd.groups[i].pins[1] = offset
  THEN CHOOSE i \in DOMAIN sd.groups :
         /\ sd.groups[i].pins[1] = offset
         /\ \A j \in 1..(i - 1) : sd.groups[j].pins[1] # offset
  ELSE Len(sd.groups) + 1

\* the loop over the groups: the first group with exactly one pin, equal to
\* offset; ngroups when there is none
gpio_group(sd, offset) ==
  IF \E i \in DOMAIN sd.groups :
       sd.groups[i].npins = 1 /\ sd.groups[i].pins[1] = offset
  THEN CHOOSE i \in DOMAIN sd.groups :
         /\ sd.groups[i].npins = 1 /\ sd.groups[i].pins[1] = offset
         /\ \A j \in 1..(i - 1) :
              ~(sd.groups[j].npins = 1 /\ sd.groups[j].pins[1] = offset)
  ELSE Len(sd.groups) + 1

\* a result that also carries the shadow area
GpioResult(ret, msg, offset, rg, io, conf) ==
  [conf |-> conf] @@ Result(ret, msg, offset, rg, io)

\* a save that stores nothing
saved_conf_none(conf, offset, value) == conf

\* pmx->gpio_conf[offset] = value
saved_conf(conf, offset, value) == [conf EXCEPT ![offset] = value]

tegra_pinctrl_gpio_save_config(sd, offset, rg, conf) ==
  LET group == gpio_group(sd, offset)
      g == sd.groups[group]
  IN IF group = Len(sd.groups) + 1
     THEN GpioResult("EINVAL", "Pingroup not found", offset, rg, << >>, conf)
     ELSE IF g.mux_reg >= 0
     THEN GpioResult("OK", "", offset, rg,
                     pmx_readl_io(g.mux_bank, g.mux_reg),
                     saved_conf(conf, offset,
                                pmx_readl(rg, g.mux_bank, g.mux_reg)))
     ELSE GpioResult("OK", "", offset, rg, << >>, conf)

\* a write-back that keeps the SFIO bit
sfsel_clear_keep(value, sfsel_bit) == value

\* the value written back without the SFIO bit
sfsel_clear(value, sfsel_bit) == value \cap Not32(BIT(sfsel_bit))

tegra_pinctrl_gpio_request_enable(sd, offset, rg, conf) ==
  LET saved == tegra_pinctrl_gpio_save_config(sd, offset, rg, conf)
      g == sd.groups[gpio_group(sd, offset)]
      value == sfsel_clear(pmx_readl(rg, g.mux_bank, g.mux_reg), g.sfsel_bit)
  IN IF saved.ret # "OK" THEN saved
     ELSE IF ~sd.sfsel_in_mux THEN saved
     ELSE IF g.mux_reg < 0 \/ g.sfsel_bit < 0
     THEN GpioResult("EINVAL", "", offset, rg, saved.io, saved.conf)
     ELSE GpioResult("OK", "", offset,
                     pmx_writel(rg, value, g.mux_bank, g.mux_reg),
                     saved.io \o pmx_readl_io(g.mux_bank, g.mux_reg)
                              \o pmx_writel_io(value, g.mux_bank, g.mux_reg),
                     saved.conf)

tegra_pinctrl_gpio_restore_config(sd, offset, rg, conf) ==
  LET group == gpio_group(sd, offset)
      g == sd.groups[group]
  IN IF group = Len(sd.groups) + 1
     THEN GpioResult("EINVAL", "Pingroup not found", offset, rg, << >>, conf)
     ELSE IF g.mux_reg >= 0
     THEN GpioResult("OK", "", offset,
                     pmx_writel(rg, conf[offset], g.mux_bank, g.mux_reg),
                     pmx_writel_io(conf[offset], g.mux_bank, g.mux_reg),
                     conf)
     ELSE GpioResult("OK", "", offset, rg, << >>, conf)

\* a void function: the return value of the restore is dropped
tegra_pinctrl_gpio_disable_free(sd, offset, rg, conf) ==
  [tegra_pinctrl_gpio_restore_config(sd, offset, rg, conf)
     EXCEPT !.ret = "OK"]

(***************************************************************************)
(* Suspend / resume: the flat buffer pmx->backup_regs.                     *)
(***************************************************************************)
\* the registers in the order of the two loops: bank by bank, by offset
RECURSIVE bank_order(_)
bank_order(addrs) ==
  IF addrs = {} THEN << >>
  ELSE LET a == CHOOSE x \in addrs :
                  \A y \in addrs :
                    x[1] < y[1] \/ (x[1] = y[1] /\ x[2] <= y[2])
       IN <<a>> \o bank_order(addrs \ {a})

\* a result that also carries the suspend buffer
PmResult(rg, io, backup) ==
  [backup |-> backup] @@ Result("OK", "", -1, rg, io)

\* *backup_regs++ = readl_relaxed(regs++) for every register
tegra_pinctrl_suspend(rg, backup) ==
  LET order == bank_order(DOMAIN rg)
  IN PmResult(rg, [k \in DOMAIN order |-> <<"r", order[k][1], order[k][2]>>],
              [a \in DOMAIN rg |-> rg[a]])

\* a resume without the final read
tegra_pinctrl_resume_no_flush(rg, backup) ==
  LET order == bank_order(DOMAIN rg)
  IN PmResult([a \in DOMAIN rg |-> backup[a]],
              [k \in DOMAIN order |->
                 <<"w", order[k][1], order[k][2], backup[order[k]]>>],
              backup)

\* writel_relaxed(*backup_regs++, regs++) for every register, then
\* readl_relaxed(pmx->regs[0])
tegra_pinctrl_resume(rg, backup) ==
  LET order == bank_order(DOMAIN rg)
  IN PmResult([a \in DOMAIN rg |-> backup[a]],
              [k \in DOMAIN order |->
                 <<"w", order[k][1], order[k][2], backup[order[k]]>>]
                \o << <<"r", 0, 0>> >>,
              backup)

(***************************************************************************)
(* Probe: the function-to-groups index.                                    *)
(***************************************************************************)
\* no group is skipped
index_skips_none(g) == FALSE

\* if (g->mux_reg == -1) continue
index_skips_group(g) == g.mux_reg = -1

\* a scan that finds every function in every group
index_has_function_always(g, f) == TRUE

\* the scan of the four slots for fn
index_has_function(g, f) == \E gfn \in 1..4 : g.funcs[gfn] = f

\* the loop over the groups for one function: the names appended
RECURSIVE index_groups_from(_, _, _)
index_groups_from(sd, f, gn) ==
  IF gn > Len(sd.groups) THEN << >>
  ELSE (IF index_skips_group(sd.groups[gn])
           \/ ~index_has_function(sd.groups[gn], f)
        THEN << >>
        ELSE <<sd.groups[gn].name>>)
       \o index_groups_from(sd, f, gn + 1)

\* pmx->group_pins after the loop over the functions: the names appended
\* for the functions fn, fn + 1, ..., in that order
RECURSIVE index_appends_from(_, _)
index_appends_from(sd, fn) ==
  IF fn > Len(sd.functions) THEN << >>
  ELSE index_groups_from(sd, sd.functions[fn], 1)
       \o index_appends_from(sd, fn + 1)

\* BUG_ON(group_pins - pmx->group_pins >= soc_data->ngroups * 4), evaluated
\* before each append with the number of names appended so far
index_bug_on(sd) ==
  \E k \in DOMAIN index_appends_from(sd, 1) : k - 1 >= Len(sd.groups) * 4

\* func->groups = group_pins; func->ngroups++ for every name appended
build_function_index(sd, old) ==
  [ f \in DOMAIN old |->
      [ groups |-> index_groups_from(sd, f, 1),
        ngroups |-> old[f].ngroups + Len(index_groups_from(sd, f, 1)) ] ]

(***************************************************************************)
(* Requests the environment issues.  A configuration request is a list of  *)
(* device-tree properties <<parameter code, value>>, packed one by one.    *)
(***************************************************************************)
\* register contents left by the bootloader:
\* 0, 0xFFFFFFFF, 0xAAAAAAAA and 0x55555555
BootVals ==
  { {}, WordBits, {b \in WordBits : b % 2 = 1}, {b \in WordBits : b % 2 = 0} }

\* values of device-tree properties; the last one is 0x10005
DtVals == {0, 1, 5, 40, 65541}

\* every enum value, and one value past the enum
InputCodes == 0..Len(ParamOrder)

\* config = TEGRA_PINCONF_PACK(cfg_params[i].param, val)
dt_config(code, val) == TEGRA_PINCONF_PACK(code, val)

dt_configs(req) == [i \in DOMAIN req |-> dt_config(req[i][1], req[i][2])]

SingleProps == InputCodes \X DtVals

BatchProps ==
  { <<ParamCode("LOCK"), 0>>, <<ParamCode("LOCK"), 1>>,
    <<ParamCode("PULL"), 5>>, <<ParamCode("PULL"), 1>>,
    <<ParamCode("PULL"), 2>>, <<ParamCode("LOOPBACK"), 1>>, <<ParamCode("TRISTATE"), 1>>,
    <<ParamCode("ENABLE_INPUT"), 0>>, <<ParamCode("PAD_POWER"), 1>> }

Requests ==
  {<<c>> : c \in SingleProps}
    \cup UNION {[1..n -> BatchProps] : n \in 2..MaxConfigs}

\* the rows of cfg_params[] a modelled subnode may carry: pull, tristate,
\* rcv-sel and io-hv
DtRows == {1, 2, 7, 8}

\* what reading a row gives: missing, unreadable, or the value 1
DtReads == {PROP_MISSING, PROP_UNREADABLE, 1}

\* the lists of group names under nvidia,pins
DtPins(s) ==
  UNION { [1..n -> {SocData(s).groups[g].name : g \in Groups(s)}] :
            n \in 0..MaxPins }

DtNodes(s) ==
  { [function |-> f, props |-> pr, pins |-> pins, has_pins |-> TRUE] :
      f \in {"", SocData(s).groups[1].funcs[2]},
      pr \in { [i \in DOMAIN cfg_params |->
                  IF i \in DtRows THEN q[i] ELSE PROP_MISSING] :
                q \in [DtRows -> DtReads] },
      pins \in DtPins(s) }
    \cup { [function |-> "", props |-> [i \in DOMAIN cfg_params |-> 1],
            pins |-> << >>, has_pins |-> FALSE] }

\* a pin number that no modelled group owns
OtherPins == {255}

\* the offsets of GPIO requests
GpioOffsets(s) ==
  UNION { {SocData(s).groups[g].pins[k] :
             k \in DOMAIN SocData(s).groups[g].pins} : g \in Groups(s) }
    \cup OtherPins

\* the configuration requests made while a pin is held or during sleep
LifeRequests ==
  { << <<ParamCode("TRISTATE"), 1>> >>, << <<ParamCode("ENABLE_INPUT"), 0>> >>,
    << <<ParamCode("PULL"), 2>> >>, << <<ParamCode("LOCK"), 0>> >>,
    << <<ParamCode("LOCK"), 1>> >>,
    << <<ParamCode("PAD_POWER"), 0>>, <<ParamCode("OPEN_DRAIN"), 1>> >> }

SeqGetCodes == {ParamCode("FUNCTION"), ParamCode("PAD_POWER")}

SeqRequests == {<< <<ParamCode("PAD_POWER"), v>> >> : v \in {0, 1, 5}}

(***************************************************************************)
(* State machine.                                                          *)
(***************************************************************************)
Record(op, group, function, req, r, pre) ==
  [ op |-> op, group |-> group, function |-> function, req |-> req,
    configs |-> dt_configs(req),
    ret |-> r.ret, msg |-> r.msg, out |-> r.out, pre |-> pre, io |-> r.io ]

NoRecord(rg) ==
  Record("none", 0, "", << >>, Result("OK", "", -1, rg, << >>), rg)

Init ==
  /\ soc \in Socs
  /\ phase = "boot"
  /\ regs \in {[a \in RegAddrs(soc) |-> v] : v \in BootVals}
  /\ last = NoRecord(regs)
  /\ prev = NoRecord(regs)
  /\ nops = 0
  /\ gpio_conf = [o \in GpioOffsets(soc) |-> {}]
  /\ backup_regs = [a \in RegAddrs(soc) |-> {}]
  /\ func_groups = [f \in Functions(soc) |-> [groups |-> << >>, ngroups |-> 0]]
  /\ seen = [pin |-> -1, val |-> {}, susp |-> [a \in RegAddrs(soc) |-> {}]]
  /\ race = [pcA |-> "idle", pcB |-> "idle", group |-> 0, function |-> "",
             config |-> 0, valA |-> {}, valB |-> {}, orig |-> {},
             overlapped |-> FALSE]

Serve(op, group, function, req, r) ==
  /\ regs' = r.regs
  /\ last' = Record(op, group, function, req, r, regs)
  /\ prev' = last
  /\ nops' = nops + 1
  /\ UNCHANGED <<soc, phase, gpio_conf, backup_regs, func_groups, seen, race>>

\* tegra_pinctrl_probe: the driver becomes usable after the parked bits
\* are cleared
Probe ==
  /\ phase = "boot"
  /\ LET r == tegra_pinctrl_clear_parked_bits(SocData(soc), regs)
     IN /\ regs' = r.regs
        /\ last' = Record("probe", 0, "", << >>, r, regs)
        /\ prev' = last
  /\ func_groups' = build_function_index(SocData(soc), func_groups)
  /\ phase' = IF index_bug_on(SocData(soc)) THEN "bug" ELSE "ready"
  /\ UNCHANGED <<soc, nops, gpio_conf, backup_regs, seen, race>>

DoSetMux ==
  \E g \in Groups(soc), f \in Functions(soc) :
    \E r \in tegra_pinctrl_set_mux(SocData(soc), f, g, regs) :
      Serve("set_mux", g, f, << >>, r)

DoGroupGet(codes) ==
  \E g \in Groups(soc), c \in codes :
    Serve("group_get", g, "", << <<c, 0>> >>,
          tegra_pinconf_group_get(SocData(soc), g, dt_config(c, 0), regs))

DoGroupSet(requests) ==
  \E g \in Groups(soc), req \in requests :
    Serve("group_set", g, "", req,
          tegra_pinconf_group_set(SocData(soc), g, dt_configs(req), regs))

DoDbgShow ==
  \E g \in Groups(soc) :
    Serve("dbg_show", g, "", << >>,
          tegra_pinconf_group_dbg_show(SocData(soc), g, regs))

\* the node of the last subnode translated is kept in req
DtSubnodeToMap ==
  /\ phase = "ready"
  /\ nops = 0
  /\ \E node \in DtNodes(soc) :
       LET r == tegra_pinctrl_dt_subnode_to_map(node, regs)
       IN /\ last' = [Record("dt_subnode_to_map", 0, node.function, << >>,
                             r, regs) EXCEPT !.req = node]
          /\ prev' = last
          /\ nops' = nops + 1
  /\ UNCHANGED <<soc, phase, regs, gpio_conf, backup_regs, func_groups, seen,
                 race>>

NextDt == Probe \/ DtSubnodeToMap

SpecDt == Init /\ [][NextDt]_vars

\* the first request after probe
FirstRequest == phase = "ready" /\ nops = 0

SetMux == FirstRequest /\ DoSetMux

GroupGet == FirstRequest /\ DoGroupGet(InputCodes)

GroupSet == FirstRequest /\ DoGroupSet(Requests)

GroupDbgShow == FirstRequest /\ DoDbgShow

Next == Probe \/ SetMux \/ GroupGet \/ GroupSet \/ GroupDbgShow

\* one request of any kind on freshly probed hardware
Spec == Init /\ [][Next]_vars

\* a further request in a sequence of requests
SeqRequest == phase = "ready" /\ nops < MaxSeqOps

SeqSetMux == SeqRequest /\ DoSetMux

SeqGroupGet == SeqRequest /\ DoGroupGet(SeqGetCodes)

SeqGroupSet == SeqRequest /\ DoGroupSet(SeqRequests)

NextSeq == Probe \/ SeqSetMux \/ SeqGroupGet \/ SeqGroupSet

\* sequences of mux selections, pad-power writes and read-backs
SpecSeq == Init /\ [][NextSeq]_vars

(***************************************************************************)
(* Life cycle of a pin and of the controller: a GPIO request, requests     *)
(* while the pin is held, the release, suspend, requests made by the sleep *)
(* state, and resume.  seen remembers the mux register at the request and  *)
(* the registers at the suspend.                                           *)
(***************************************************************************)
\* the mux register of the group that owns a pin
MuxAddr(g) == <<g.mux_bank, g.mux_reg>>

LifeGpioRequest ==
  /\ phase = "ready"
  /\ \E offset \in GpioOffsets(soc) :
       LET sd == SocData(soc)
           r == tegra_pinctrl_gpio_request_enable(sd, offset, regs, gpio_conf)
           group == gpio_group(sd, offset)
           found == group <= Len(sd.groups)
       IN /\ regs' = r.regs
          /\ gpio_conf' = r.conf
          /\ last' = Record("gpio_request", IF found THEN group ELSE 0, "",
                            << >>, r, regs)
          /\ prev' = last
          /\ phase' = IF r.ret = "OK" THEN "held" ELSE "ready"
          /\ seen' = IF r.ret = "OK" /\ sd.groups[group].mux_reg >= 0
                     THEN [seen EXCEPT !.pin = offset,
                                       !.val = regs[MuxAddr(sd.groups[group])]]
                     ELSE [seen EXCEPT !.pin = IF r.ret = "OK" THEN offset
                                               ELSE seen.pin]
  /\ UNCHANGED <<soc, nops, backup_regs, func_groups, race>>

LifeGpioFree ==
  /\ phase = "held"
  /\ LET sd == SocData(soc)
         r == tegra_pinctrl_gpio_disable_free(sd, seen.pin, regs, gpio_conf)
     IN /\ regs' = r.regs
        /\ gpio_conf' = r.conf
        /\ last' = Record("gpio_free", gpio_group(sd, seen.pin), "", << >>,
                          r, regs)
        /\ prev' = last
  /\ phase' = "released"
  /\ UNCHANGED <<soc, nops, backup_regs, func_groups, seen, race>>

LifeSuspend ==
  /\ phase \in {"ready", "held", "released"}
  /\ LET r == tegra_pinctrl_suspend(regs, backup_regs)
     IN /\ regs' = r.regs
        /\ backup_regs' = r.backup
        /\ last' = Record("suspend", 0, "", << >>, r, regs)
        /\ prev' = last
  /\ seen' = [seen EXCEPT !.susp = regs]
  /\ phase' = "asleep"
  /\ UNCHANGED <<soc, nops, gpio_conf, func_groups, race>>

LifeResume ==
  /\ phase = "asleep"
  /\ LET r == tegra_pinctrl_resume(regs, backup_regs)
     IN /\ regs' = r.regs
        /\ backup_regs' = r.backup
        /\ last' = Record("resume", 0, "", << >>, r, regs)
        /\ prev' = last
  /\ phase' = "resumed"
  /\ UNCHANGED <<soc, nops, gpio_conf, func_groups, seen, race>>

\* a request while a pin is held or between suspend and resume
LifeRequest == phase \in {"held", "asleep"} /\ nops < MaxLifeOps

LifeSetMux == LifeRequest /\ DoSetMux

LifeGroupSet == LifeRequest /\ DoGroupSet(LifeRequests)

NextLife ==
  \/ Probe
  \/ LifeGpioRequest
  \/ LifeGpioFree
  \/ LifeSuspend
  \/ LifeResume
  \/ LifeSetMux
  \/ LifeGroupSet

SpecLife == Init /\ [][NextLife]_vars

(***************************************************************************)
(* GPIO requests and releases as the host may issue them: the release      *)
(* callback takes any pin at any time after probe, whether or not a        *)
(* request for it was granted before.                                      *)
(***************************************************************************)
GpioFreeAny ==
  /\ phase \in {"ready", "released"}
  /\ \E offset \in GpioOffsets(soc) :
       LET sd == SocData(soc)
           r == tegra_pinctrl_gpio_disable_free(sd, offset, regs, gpio_conf)
           group == gpio_group(sd, offset)
       IN /\ regs' = r.regs
          /\ gpio_conf' = r.conf
          /\ last' = Record("gpio_free",
                            IF group <= Len(sd.groups) THEN group ELSE 0, "",
                            << >>, r, regs)
          /\ prev' = last
  /\ UNCHANGED <<soc, phase, nops, backup_regs, func_groups, seen, race>>

NextGpio == Probe \/ LifeGpioRequest \/ LifeGpioFree \/ GpioFreeAny

SpecGpio == Init /\ [][NextGpio]_vars

(***************************************************************************)
(* Probe that fails and is called again. The function table is a static    *)
(* array of the module (tegra234_functions), so what a failed probe wrote  *)
(* into it is still there at the next call; everything else it allocated   *)
(* is released.                                                            *)
(***************************************************************************)
\* a probe that returns an error after the index is built and before the
\* parked bits are cleared: devm_kcalloc, devm_kzalloc,
\* devm_platform_ioremap_resource or devm_pinctrl_register failed
ProbeFail ==
  /\ phase = "boot"
  /\ nops < MaxProbeFails
  /\ func_groups' = build_function_index(SocData(soc), func_groups)
  /\ last' = Record("probe_failed", 0, "", << >>,
                    Result("ENOMEM", "", -1, regs, << >>), regs)
  /\ prev' = last
  /\ nops' = nops + 1
  /\ phase' = IF index_bug_on(SocData(soc)) THEN "bug" ELSE "boot"
  /\ UNCHANGED <<soc, regs, gpio_conf, backup_regs, seen, race>>

\* tegra_pinctrl_get_func_groups: *groups and *num_groups
GetFuncGroups ==
  /\ phase = "ready"
  /\ \E f \in Functions(soc) :
       /\ last' = Record("get_func_groups", 0, f, << >>,
                         Result("OK", "", func_groups[f], regs, << >>), regs)
       /\ prev' = last
  /\ UNCHANGED <<soc, phase, regs, nops, gpio_conf, backup_regs, func_groups,
                 seen, race>>

NextProbe == ProbeFail \/ Probe \/ GetFuncGroups

SpecProbe == Init /\ [][NextProbe]_vars

(***************************************************************************)
(* Two requests on one mux register, a set_mux (A) and a group_set of one  *)
(* parameter (B), each split at the point between its pmx_readl and its    *)
(* pmx_writel. The driver takes no lock of its own, so the two reads and   *)
(* the two writes can come in any order the host lets through.             *)
(***************************************************************************)
\* the parameters set by request B
RaceRequests ==
  { <<ParamCode("ENABLE_INPUT"), 0>>, <<ParamCode("ENABLE_INPUT"), 1>>,
    <<ParamCode("TRISTATE"), 1>>, <<ParamCode("PULL"), 2>>,
    <<ParamCode("DRIVE_TYPE"), 2>>, <<ParamCode("LOCK"), 0>> }

\* the parameter of the item lies in the mux register of the group,
\* outside the mux field
InMuxRegister(sd, g, config) ==
  LET loc == tegra_pinconf_reg(sd, g, unpack_config(config).param, FALSE)
  IN /\ loc.ret = "OK"
     /\ <<loc.bank, loc.reg>> = MuxAddr(g)
     /\ (loc.bit..(loc.bit + loc.width - 1))
          \cap (g.mux_bit..(g.mux_bit + 1)) = {}

\* both requests arrive
RaceStart ==
  /\ phase = "ready"
  /\ race.pcA = "idle"
  /\ race.pcB = "idle"
  /\ \E group \in Groups(soc), function \in Functions(soc),
        req \in RaceRequests :
       LET g == SocData(soc).groups[group]
           config == dt_config(req[1], req[2])
       IN /\ g.mux_reg >= 0
          /\ mux_slot(g, function) < 4
          /\ InMuxRegister(SocData(soc), g, config)
          /\ race' = [race EXCEPT !.pcA = "read", !.pcB = "read",
                                  !.group = group, !.function = function,
                                  !.config = config,
                                  !.orig = regs[MuxAddr(g)]]
  /\ UNCHANGED <<soc, phase, regs, last, prev, nops, gpio_conf, backup_regs,
                 func_groups, seen>>

\* the registers as a request sees them that read val from the mux
\* register of the group
RaceView(val) ==
  [regs EXCEPT ![MuxAddr(SocData(soc).groups[race.group])] = val]

\* val = pmx_readl(pmx, g->mux_bank, g->mux_reg) of set_mux
RaceMuxRead ==
  /\ race.pcA = "read"
  /\ race' = [race EXCEPT
                !.pcA = "write",
                !.valA = regs[MuxAddr(SocData(soc).groups[race.group])],
                !.overlapped = @ \/ race.pcB = "write"]
  /\ UNCHANGED <<soc, phase, regs, last, prev, nops, gpio_conf, backup_regs,
                 func_groups, seen>>

\* pmx_writel(pmx, val, g->mux_bank, g->mux_reg) of set_mux
RaceMuxWrite ==
  /\ race.pcA = "write"
  /\ \E r \in tegra_pinctrl_set_mux(SocData(soc), race.function, race.group,
                                    RaceView(race.valA)) :
       /\ regs' = [regs EXCEPT
                     ![MuxAddr(SocData(soc).groups[race.group])] =
                        r.regs[MuxAddr(SocData(soc).groups[race.group])]]
       /\ race' = [race EXCEPT !.pcA = "done"]
  /\ UNCHANGED <<soc, phase, last, prev, nops, gpio_conf, backup_regs,
                 func_groups, seen>>

\* val = pmx_readl(pmx, bank, reg) of group_set
RaceConfRead ==
  /\ race.pcB = "read"
  /\ race' = [race EXCEPT
                !.pcB = "write",
                !.valB = regs[MuxAddr(SocData(soc).groups[race.group])],
                !.overlapped = @ \/ race.pcA = "write"]
  /\ UNCHANGED <<soc, phase, regs, last, prev, nops, gpio_conf, backup_regs,
                 func_groups, seen>>

\* the checks of group_set and its pmx_writel(pmx, val, bank, reg)
RaceConfWrite ==
  /\ race.pcB = "write"
  /\ LET r == group_set_one(SocData(soc), SocData(soc).groups[race.group],
                            race.config, RaceView(race.valB))
     IN /\ regs' = [regs EXCEPT
                      ![MuxAddr(SocData(soc).groups[race.group])] =
                         IF r.ret = "OK"
                         THEN r.regs[MuxAddr(SocData(soc).groups[race.group])]
                         ELSE @]
        /\ race' = [race EXCEPT
                      !.pcB = IF r.ret = "OK" THEN "done" ELSE "failed"]
  /\ UNCHANGED <<soc, phase, last, prev, nops, gpio_conf, backup_regs,
                 func_groups, seen>>

NextRace ==
  \/ Probe
  \/ RaceStart
  \/ RaceMuxRead
  \/ RaceMuxWrite
  \/ RaceConfRead
  \/ RaceConfWrite

SpecRace == Init /\ [][NextRace]_vars

(***************************************************************************)
(* Properties of the driver.                                               *)
(***************************************************************************)
Sd == SocData(soc)

\* the group the last and the previous request named
LastG == Sd.groups[last.group]

PrevG == Sd.groups[prev.group]

\* the field of width bits at position bit of a register value
FieldOf(val, bit, width) ==
  FromBits({b - bit : b \in {c \in val : c >= bit /\ c < bit + width}})

\* the parameter and the argument a packed item carries
ItemParam(config) == ParamOfCode(TEGRA_PINCONF_UNPACK_PARAM(config))

ItemArg(config) == TEGRA_PINCONF_UNPACK_ARG(config)

\* where the catalog places a parameter of a group, and whether it does
Located(g, param) == pinconf_reg_select(Sd, g, param)

Supported(g, param) ==
  /\ param \in Params
  /\ Located(g, param).reg >= 0
  /\ Located(g, param).bit >= 0

\* the register accesses of the last request that are writes
LastWrites == {last.io[k] : k \in Writes(last.io)}

Untouched == last.io = << >> /\ regs = last.pre

NotWritten == LastWrites = {} /\ regs = last.pre

GetOf(param) ==
  /\ last.op = "group_get"
  /\ last.configs = <<TEGRA_PINCONF_PACK(ParamCode(param), 0)>>

\* C1: on a group with a mux register, selecting the function in slot i
\* succeeds and writes i into the mux field, and a read of the function
\* parameter that follows on the same group returns i; selecting "touch" on
\* touch_clk_pcc4 leaves 1 in its mux field
C1_SetMuxThenGetFunction ==
  /\ (last.op = "set_mux" /\ LastG.mux_reg >= 0) =>
       \A i \in 0..3 :
         LastG.funcs[i + 1] = last.function =>
           /\ last.ret = "OK"
           /\ \E w \in LastWrites :
                /\ <<w[2], w[3]>> = <<LastG.mux_bank, LastG.mux_reg>>
                /\ FieldOf(w[4], LastG.mux_bit, 2) = i
           /\ FieldOf(regs[<<LastG.mux_bank, LastG.mux_reg>>],
                      LastG.mux_bit, 2) = i
  /\ ( /\ GetOf("FUNCTION")
       /\ prev.op = "set_mux" /\ prev.ret = "OK"
       /\ prev.group = last.group ) =>
       /\ last.ret = "OK"
       /\ TEGRA_PINCONF_UNPACK_PARAM(last.out) = ParamCode("FUNCTION")
       /\ \A i \in 0..3 :
            LastG.funcs[i + 1] = prev.function =>
              TEGRA_PINCONF_UNPACK_ARG(last.out) = i
  /\ ( /\ soc = "tegra234" /\ last.op = "set_mux"
       /\ LastG.name = "touch_clk_pcc4" /\ last.function = "touch" ) =>
       /\ last.ret = "OK"
       /\ FieldOf(regs[<<LastG.mux_bank, LastG.mux_reg>>],
                  LastG.mux_bit, 2) = 1

C1_Witness ==
  /\ soc = "tegra234"
  /\ prev.op = "set_mux" /\ prev.ret = "OK" /\ prev.function = "touch"
  /\ PrevG.name = "touch_clk_pcc4"
  /\ GetOf("FUNCTION") /\ last.group = prev.group
  /\ TEGRA_PINCONF_UNPACK_ARG(last.out) = 1

\* C2: selecting a function on a group without a mux register, or a
\* function that is in none of the group's four slots, fails with
\* InvalidArgument and reads and writes no register
C2_SetMuxRejects ==
  ( /\ last.op = "set_mux"
    /\ \/ LastG.mux_reg < 0
       \/ \A i \in 1..4 : LastG.funcs[i] # last.function ) =>
    /\ last.ret = "EINVAL"
    /\ Untouched

C2_Witness ==
  /\ prev.op = "set_mux" /\ PrevG.mux_reg < 0
  /\ prev.ret = "EINVAL" /\ prev.io = << >>
  /\ last.op = "set_mux" /\ LastG.mux_reg >= 0
  /\ \A i \in 1..4 : LastG.funcs[i] # last.function
  /\ last.ret = "EINVAL" /\ Untouched

\* C3: a request to set LOCK to 0 on a group that supports LOCK and whose
\* lock bit reads 1 fails with InvalidArgument ("LOCK bit cannot be
\* cleared") and writes no register
C3_LockCannotBeCleared ==
  ( /\ last.op = "group_set"
    /\ last.configs[1] = TEGRA_PINCONF_PACK(ParamCode("LOCK"), 0)
    /\ Supported(LastG, "LOCK")
    /\ Located(LastG, "LOCK").bit
         \in last.pre[<<Located(LastG, "LOCK").bank,
                        Located(LastG, "LOCK").reg>>] ) =>
    /\ last.ret = "EINVAL"
    /\ last.msg = "LOCK bit cannot be cleared"
    /\ NotWritten

C3_Witness ==
  /\ last.op = "group_set"
  /\ last.configs = <<TEGRA_PINCONF_PACK(ParamCode("LOCK"), 0)>>
  /\ Supported(LastG, "LOCK")
  /\ Located(LastG, "LOCK").bit
       \in last.pre[<<Located(LastG, "LOCK").bank,
                      Located(LastG, "LOCK").reg>>]
  /\ last.ret = "EINVAL"
  /\ Reads(last.io) # {}
  /\ NotWritten

\* a request that sets one parameter
SingleSet(rec) == rec.op = "group_set" /\ Len(rec.configs) = 1

\* the value the register of the last request holds in the field of param
StoredField(g, param) ==
  FieldOf(regs[<<Located(g, param).bank, Located(g, param).reg>>],
          Located(g, param).bit, Located(g, param).width)

SetThenGetPadPower ==
  /\ SingleSet(prev) /\ ItemParam(prev.configs[1]) = "PAD_POWER"
  /\ prev.ret = "OK"
  /\ GetOf("PAD_POWER") /\ last.group = prev.group

\* C4: on a group that supports pad power, setting it with an argument a
\* stores the inverse of a (0 for a non-zero a, 1 for a = 0), and the read
\* that follows returns the truth value of a: 1 for every non-zero a, 0 for
\* a = 0, hence a itself exactly when a is 0 or 1
C4_PadPowerRoundTrip ==
  /\ ( /\ SingleSet(last) /\ ItemParam(last.configs[1]) = "PAD_POWER"
       /\ Supported(LastG, "PAD_POWER") ) =>
       /\ last.ret = "OK"
       /\ StoredField(LastG, "PAD_POWER")
            = (IF ItemArg(last.configs[1]) = 0 THEN 1 ELSE 0)
  /\ SetThenGetPadPower =>
       /\ last.ret = "OK"
       /\ TEGRA_PINCONF_UNPACK_PARAM(last.out) = ParamCode("PAD_POWER")
       /\ TEGRA_PINCONF_UNPACK_ARG(last.out)
            = (IF ItemArg(prev.configs[1]) = 0 THEN 0 ELSE 1)

C4_Witness ==
  /\ SetThenGetPadPower
  /\ ItemArg(prev.configs[1]) = 5
  /\ StoredField(LastG, "PAD_POWER") = 0
  /\ TEGRA_PINCONF_UNPACK_ARG(last.out) = 1

\* C4 as stated: the read returns the argument a itself for every a
C4_ReturnsSameArgument ==
  SetThenGetPadPower =>
    TEGRA_PINCONF_UNPACK_ARG(last.out) = ItemArg(prev.configs[1])

\* C5: reading, or setting alone, a parameter that the group does not
\* support (its register or its bit is absent, or the parameter is not one
\* of the enumeration) fails with Unsupported and reads and writes no
\* register
C5_UnsupportedParameter ==
  ( /\ last.op = "group_get" \/ SingleSet(last)
    /\ ~Supported(LastG, ItemParam(last.configs[1])) ) =>
    /\ last.ret = "ENOTSUPP"
    /\ Untouched

C5_Witness ==
  /\ SingleSet(last)
  /\ ItemParam(last.configs[1]) = "LOOPBACK"
  /\ Located(LastG, "LOOPBACK").reg < 0
  /\ last.ret = "ENOTSUPP"
  /\ Untouched

\* the register clear_parked_bits addresses for a group
PrimaryReg(g) ==
  IF g.mux_reg >= 0 THEN <<g.mux_bank, g.mux_reg>>
  ELSE <<g.drv_bank, g.drv_reg>>

ParkedGroups ==
  {i \in DOMAIN Sd.groups : Sd.groups[i].parked_bitmask # {}}

\* C6: after the parked bits are cleared, the primary register of every
\* group with a non-zero parked mask has the mask bits 0 and its other bits
\* as before, and a register that is the primary register of no such group
\* is not accessed
C6_ParkedBitsCleared ==
  last.op = "probe" =>
    /\ \A i \in ParkedGroups :
         /\ regs[PrimaryReg(Sd.groups[i])] \cap Sd.groups[i].parked_bitmask
              = {}
         /\ regs[PrimaryReg(Sd.groups[i])] \ Sd.groups[i].parked_bitmask
              = last.pre[PrimaryReg(Sd.groups[i])]
                  \ Sd.groups[i].parked_bitmask
    /\ \A a \in DOMAIN regs :
         (\A i \in ParkedGroups : PrimaryReg(Sd.groups[i]) # a) =>
           /\ regs[a] = last.pre[a]
           /\ \A k \in DOMAIN last.io : <<last.io[k][2], last.io[k][3]>> # a

C6_Witness ==
  /\ last.op = "probe"
  /\ \E i \in ParkedGroups :
       /\ Sd.groups[i].mux_reg < 0
       /\ Sd.groups[i].parked_bitmask
            \subseteq last.pre[PrimaryReg(Sd.groups[i])]
       /\ regs[PrimaryReg(Sd.groups[i])]
            = last.pre[PrimaryReg(Sd.groups[i])]
                \ Sd.groups[i].parked_bitmask
       /\ regs[PrimaryReg(Sd.groups[i])] # {}
  /\ \E i \in DOMAIN Sd.groups :
       /\ Sd.groups[i].parked_bitmask = {}
       /\ regs[PrimaryReg(Sd.groups[i])] = last.pre[PrimaryReg(Sd.groups[i])]

SingleSetWidthOne ==
  /\ SingleSet(last)
  /\ Supported(LastG, ItemParam(last.configs[1]))
  /\ Located(LastG, ItemParam(last.configs[1])).width = 1

\* C7: setting a supported parameter of width 1 never fails the range
\* check: every non-zero argument counts as 1 (the only failure left is
\* clearing a set LOCK), and the bit written is 1 for a non-zero and 0 for
\* a zero argument, except for pad power, whose bit is 0 for a non-zero
\* and 1 for a zero argument
C7_BooleanCoercion ==
  SingleSetWidthOne =>
    /\ last.msg # "too big for register"
    /\ last.ret = "OK" \/ last.msg = "LOCK bit cannot be cleared"
    /\ last.ret = "OK" =>
         StoredField(LastG, ItemParam(last.configs[1]))
           = (IF ItemParam(last.configs[1]) = "PAD_POWER"
              THEN (IF ItemArg(last.configs[1]) = 0 THEN 1 ELSE 0)
              ELSE (IF ItemArg(last.configs[1]) = 0 THEN 0 ELSE 1))

C7_Witness ==
  /\ SingleSetWidthOne
  /\ ItemParam(last.configs[1]) = "TRISTATE"
  /\ ItemArg(last.configs[1]) = 5
  /\ last.ret = "OK"
  /\ Located(LastG, "TRISTATE").bit \notin
       last.pre[<<Located(LastG, "TRISTATE").bank,
                  Located(LastG, "TRISTATE").reg>>]
  /\ StoredField(LastG, "TRISTATE") = 1

\* C7 as stated: the bit written is 1 for every non-zero argument and 0 for
\* a zero argument, whatever the parameter
C7_BitFollowsArgument ==
  (SingleSetWidthOne /\ last.ret = "OK") =>
    StoredField(LastG, ItemParam(last.configs[1]))
      = (IF ItemArg(last.configs[1]) = 0 THEN 0 ELSE 1)

\* the value fits the field the catalog gives the parameter on the group
Fits(g, param, val) ==
  Supported(g, param) /\ val < 2^(Located(g, param).width)

\* C8: for every parameter p of the enumeration and every argument a that
\* fits the width of p on the group, the item packed from (p, a) unpacks to
\* exactly (p, a)
C8_PackUnpackInverse ==
  last.op \in {"group_get", "group_set"} =>
    \A k \in DOMAIN last.req :
      ( /\ last.req[k][1] < Len(ParamOrder)
        /\ Fits(LastG, ParamOrder[last.req[k][1] + 1], last.req[k][2]) ) =>
        /\ unpack_config(last.configs[k]).code = last.req[k][1]
        /\ unpack_config(last.configs[k]).param
             = ParamOrder[last.req[k][1] + 1]
        /\ unpack_config(last.configs[k]).arg = last.req[k][2]

C8_Witness ==
  /\ SingleSet(last)
  /\ last.req[1] = <<ParamCode("DRIVE_UP_STRENGTH"), 5>>
  /\ Fits(LastG, "DRIVE_UP_STRENGTH", 5)
  /\ unpack_config(last.configs[1]).param = "DRIVE_UP_STRENGTH"
  /\ unpack_config(last.configs[1]).arg = 5
  /\ last.ret = "OK"
  /\ StoredField(LastG, "DRIVE_UP_STRENGTH") = 5

\* C9: setting a supported parameter of width w > 1 to an argument of
\* 2^w or more fails with "too big for register" (ValueOutOfRange), no
\* register is written and the register keeps its value
C9_RangeRejected ==
  ( /\ last.op = "group_set"
    /\ Supported(LastG, ItemParam(last.configs[1]))
    /\ Located(LastG, ItemParam(last.configs[1])).width > 1
    /\ ItemArg(last.configs[1])
         >= 2^(Located(LastG, ItemParam(last.configs[1])).width) ) =>
    /\ last.ret = "EINVAL"
    /\ last.msg = "too big for register"
    /\ NotWritten

C9_Witness ==
  /\ SingleSet(last)
  /\ ItemParam(last.configs[1]) = "DRIVE_DOWN_STRENGTH"
  /\ Supported(LastG, "DRIVE_DOWN_STRENGTH")
  /\ Located(LastG, "DRIVE_DOWN_STRENGTH").width = 5
  /\ ItemArg(last.configs[1]) = 40
  /\ last.ret = "EINVAL"
  /\ Reads(last.io) # {}
  /\ NotWritten

\* the number of parameters of the last request that were written
Applied == Cardinality(Writes(last.io))

Expected(g, config) ==
  IF ItemParam(config) = "PAD_POWER"
  THEN (IF ItemArg(config) = 0 THEN 1 ELSE 0)
  ELSE IF Located(g, ItemParam(config)).width = 1
  THEN (IF ItemArg(config) = 0 THEN 0 ELSE 1)
  ELSE ItemArg(config)

\* the register bits of the field of the item
FieldBits(g, config) ==
  { <<Located(g, ItemParam(config)).bank, Located(g, ItemParam(config)).reg,
      b>> :
    b \in Located(g, ItemParam(config)).bit
            ..(Located(g, ItemParam(config)).bit
                 + Located(g, ItemParam(config)).width - 1) }

\* the k-th register write of the last request
NthWrite(k) ==
  last.io[CHOOSE i \in Writes(last.io) :
            Cardinality({j \in Writes(last.io) : j <= i}) = k]

FailedSet == last.op = "group_set" /\ last.ret # "OK"

\* C11: after a request of several parameters failed at position k, the
\* parameters before k were written in list order and none was undone:
\* each of their fields still holds the value its parameter requested,
\* unless a later parameter before k wrote into the same bits
C11_EarlierWritesStay ==
  FailedSet =>
    \A j \in 1..Applied :
      /\ <<NthWrite(j)[2], NthWrite(j)[3]>>
           = <<Located(LastG, ItemParam(last.configs[j])).bank,
               Located(LastG, ItemParam(last.configs[j])).reg>>
      /\ FieldOf(NthWrite(j)[4],
                 Located(LastG, ItemParam(last.configs[j])).bit,
                 Located(LastG, ItemParam(last.configs[j])).width)
           = Expected(LastG, last.configs[j])
      /\ (\A k \in (j + 1)..Applied :
            FieldBits(LastG, last.configs[k])
              \cap FieldBits(LastG, last.configs[j]) = {}) =>
           StoredField(LastG, ItemParam(last.configs[j]))
             = Expected(LastG, last.configs[j])

C11_Witness ==
  /\ FailedSet /\ Len(last.configs) = 3 /\ Applied = 2
  /\ ItemParam(last.configs[1]) # ItemParam(last.configs[2])
  /\ \A j \in 1..2 :
       /\ StoredField(LastG, ItemParam(last.configs[j]))
            = Expected(LastG, last.configs[j])
       /\ FieldOf(last.pre[<<Located(LastG, ItemParam(last.configs[j])).bank,
                             Located(LastG, ItemParam(last.configs[j])).reg>>],
                  Located(LastG, ItemParam(last.configs[j])).bit,
                  Located(LastG, ItemParam(last.configs[j])).width)
            # Expected(LastG, last.configs[j])

\* C11 as stated: every field written by an earlier parameter holds the
\* value that parameter requested
C11_EveryEarlierFieldHolds ==
  FailedSet =>
    \A j \in 1..Applied :
      StoredField(LastG, ItemParam(last.configs[j]))
        = Expected(LastG, last.configs[j])

\* C12: when a pin of a single-pin group with a mux register was granted
\* as GPIO, the release writes the mux register back to exactly the value
\* it had when the request was made, whatever set_mux and setGroupConfig
\* did in between, and changes no other register
C12_GpioReleaseRestores ==
  (last.op = "gpio_free" /\ LastG.mux_reg >= 0) =>
    /\ regs[MuxAddr(LastG)] = seen.val
    /\ \A a \in DOMAIN regs : a # MuxAddr(LastG) => regs[a] = last.pre[a]

C12_Witness ==
  /\ last.op = "gpio_free" /\ LastG.mux_reg >= 0
  /\ prev.op \in {"set_mux", "group_set"} /\ prev.ret = "OK"
  /\ prev.group = last.group
  /\ last.pre[MuxAddr(LastG)] # seen.val
  /\ seen.val # {}
  /\ regs[MuxAddr(LastG)] = seen.val

\* the pin is the only pin of no group
NoSinglePinGroup(offset) ==
  \A i \in DOMAIN Sd.groups :
    ~(Sd.groups[i].npins = 1 /\ Sd.groups[i].pins[1] = offset)

\* C13: a GPIO request for a pin that is the only pin of no group fails
\* with "Pingroup not found" and changes no register, no shadow slot and not
\* the suspend buffer
C13_GpioRequestWithoutGroup ==
  [][ (last'.op = "gpio_request" /\ NoSinglePinGroup(last'.out)) =>
        /\ last'.ret = "EINVAL"
        /\ last'.msg = "Pingroup not found"
        /\ last'.io = << >>
        /\ regs' = regs
        /\ gpio_conf' = gpio_conf
        /\ backup_regs' = backup_regs ]_vars

C13_Witness ==
  /\ last.op = "gpio_request"
  /\ \E i \in DOMAIN Sd.groups :
       Sd.groups[i].npins > 1 /\ Sd.groups[i].pins[1] = last.out
  /\ last.ret = "EINVAL"
  /\ last.msg = "Pingroup not found"
  /\ Untouched

\* C14: after suspend and resume every register holds the value it had
\* when suspend took its snapshot, whatever was written in between, and
\* the last access of resume is its only read
C14_ResumeRestoresSnapshot ==
  last.op = "resume" =>
    /\ regs = seen.susp
    /\ Reads(last.io) = {Len(last.io)}
    /\ \A a \in DOMAIN regs :
         \E k \in Writes(last.io) :
           last.io[k] = <<"w", a[1], a[2], seen.susp[a]>>

C14_Witness ==
  /\ last.op = "resume"
  /\ prev.op \in {"set_mux", "group_set"}
  /\ last.pre # seen.susp
  /\ regs = seen.susp
  /\ \E a \in DOMAIN regs : regs[a] # {}

\* every write of the accesses is followed at once by a read of the same
\* bank and offset
WritesReadBack(io) ==
  \A k \in Writes(io) :
    /\ k + 1 \in DOMAIN io
    /\ io[k + 1] = <<"r", io[k][2], io[k][3]>>

\* C16: every register write of set_mux, setGroupConfig, GPIO request and
\* release and parked-bit clearing is followed by a read of the same bank
\* and offset before the next write and before the operation returns;
\* resume writes all registers back to back and ends with a single read of
\* offset 0 of bank 0
C16_WritesAreReadBack ==
  /\ last.op # "resume" => WritesReadBack(last.io)
  /\ last.op = "resume" =>
       /\ Writes(last.io) = 1..(Len(last.io) - 1)
       /\ last.io[Len(last.io)] = <<"r", 0, 0>>

C16_Witness ==
  /\ last.op = "resume"
  /\ Cardinality(Writes(last.io)) > 1
  /\ ~WritesReadBack(last.io)
  /\ prev.op \in {"set_mux", "group_set"} /\ Writes(prev.io) # {}
  /\ WritesReadBack(prev.io)

\* C16 as stated: in every operation, resume included, each write is
\* followed by a read of the same location
C16_EveryWriteReadBack == WritesReadBack(last.io)

\* the names of a sequence of groups
NamesOf(gs) == [i \in DOMAIN gs |-> gs[i].name]

\* the groups, in table order, one of whose four slots holds f
SlotGroups(f) ==
  SelectSeq(Sd.groups, LAMBDA g : \E k \in 1..4 : g.funcs[k] = f)

\* those of them that have a mux register
MuxSlotGroups(f) ==
  SelectSeq(Sd.groups,
            LAMBDA g : g.mux_reg # -1 /\ \E k \in 1..4 : g.funcs[k] = f)

\* the calls of probe so far that built the index
ProbeCalls == nops + (IF phase = "boot" THEN 0 ELSE 1)

FlagParams == {"HIGH_SPEED_MODE", "SCHMITT", "DRIVE_TYPE"}

\* the catalog flag of such a parameter and the bit the group gives it
InMux(param) ==
  CASE param = "HIGH_SPEED_MODE" -> Sd.hsm_in_mux
    [] param = "SCHMITT" -> Sd.schmitt_in_mux
    [] param = "DRIVE_TYPE" -> Sd.drvtype_in_mux

FlagBit(g, param) ==
  CASE param = "HIGH_SPEED_MODE" -> g.hsm_bit
    [] param = "SCHMITT" -> g.schmitt_bit
    [] param = "DRIVE_TYPE" -> g.drvtype_bit

\* the bank and register the flag selects
FlagReg(g, param) ==
  IF InMux(param) THEN <<g.mux_bank, g.mux_reg>> ELSE <<g.drv_bank, g.drv_reg>>

\* C18: a read of any parameter fails with Unsupported exactly when the
\* selected register or bit is absent, and then no register is accessed; a
\* read that succeeds accesses one register, once, the located one; for
\* high-speed-mode, schmitt and drive-type that register is the group's mux
\* register when the catalog flag is true and its drive register otherwise
C18_LocateSelectsByFlag ==
  (last.op = "group_get" /\ ItemParam(last.configs[1]) \in Params) =>
    LET param == ItemParam(last.configs[1])
        loc == Located(LastG, param)
    IN /\ (last.ret = "ENOTSUPP") <=> (loc.reg < 0 \/ loc.bit < 0)
       /\ last.ret = "ENOTSUPP" => Untouched
       /\ last.ret # "ENOTSUPP" =>
            /\ last.ret = "OK"
            /\ last.io = << <<"r", loc.bank, loc.reg>> >>
       /\ param \in FlagParams =>
            /\ (last.ret = "ENOTSUPP") <=>
                 (FlagReg(LastG, param)[2] < 0 \/ FlagBit(LastG, param) < 0)
            /\ last.ret = "OK" =>
                 /\ last.io = << <<"r", FlagReg(LastG, param)[1],
                                  FlagReg(LastG, param)[2]>> >>
                 /\ FieldOf(ToBits(TEGRA_PINCONF_UNPACK_ARG(last.out)),
                            0, 2) =
                      FieldOf(regs[FlagReg(LastG, param)],
                              FlagBit(LastG, param),
                              IF param = "DRIVE_TYPE" THEN 2 ELSE 1)

C18_Witness ==
  /\ last.op = "group_get"
  /\ ItemParam(last.configs[1]) = "SCHMITT"
  /\ last.ret = "OK"
  /\ LastG.mux_reg >= 0
  /\ LastG.drv_reg >= 0
  /\ LastG.mux_reg # LastG.drv_reg
  /\ last.io = << <<"r", FlagReg(LastG, "SCHMITT")[1],
                   FlagReg(LastG, "SCHMITT")[2]>> >>

\* the register the single item of the last request is located in
SetReg == <<Located(LastG, ItemParam(last.configs[1])).bank,
            Located(LastG, ItemParam(last.configs[1])).reg>>

\* the bit positions of the field of that item
SetBits ==
  Located(LastG, ItemParam(last.configs[1])).bit
    ..(Located(LastG, ItemParam(last.configs[1])).bit
         + Located(LastG, ItemParam(last.configs[1])).width - 1)

\* C19: a step that serves a successful single-parameter group_set reads
\* the located register and writes it once; afterwards the field of the
\* parameter holds the coerced or inverted argument, every other bit of
\* that register and every other register hold what they held before, and
\* the GPIO shadow area and the suspend buffer are as they were
C19_SingleSetFrame ==
  [][ (nops' = nops + 1 /\ SingleSet(last') /\ last'.ret = "OK") =>
        /\ last'.pre = regs
        /\ Cardinality(Writes(last'.io)) = 1
        /\ StoredField(LastG, ItemParam(last.configs[1]))'
             = Expected(LastG, last.configs[1])'
        /\ (regs[SetReg] \ SetBits)' = regs[SetReg'] \ SetBits'
        /\ \A a \in DOMAIN regs : a # SetReg' => regs'[a] = regs[a]
        /\ gpio_conf' = gpio_conf
        /\ backup_regs' = backup_regs ]_vars

C19_Witness ==
  /\ SingleSet(last)
  /\ last.ret = "OK"
  /\ ItemParam(last.configs[1]) = "ENABLE_INPUT"
  /\ ItemArg(last.configs[1]) = 0
  /\ Located(LastG, "ENABLE_INPUT").bit \in last.pre[SetReg]
  /\ regs[SetReg] = last.pre[SetReg] \ SetBits
  /\ regs[SetReg] # {}
  /\ phase = "asleep"
  /\ \E a \in DOMAIN backup_regs : backup_regs[a] # {}
  /\ \E o \in DOMAIN gpio_conf : gpio_conf[o] # {}

\* the bits of the mux register a successful set_mux may change: the mux
\* field and, when the catalog flag is set, the SFIO-select bit
MuxWritable(g) ==
  (g.mux_bit)..(g.mux_bit + 1)
    \cup (IF Sd.sfsel_in_mux /\ g.sfsel_bit >= 0 THEN {g.sfsel_bit} ELSE {})

\* C20: a successful set_mux reads the mux register of the group and writes
\* it once; afterwards the mux field holds the slot index, the SFIO-select
\* bit is 1 when the catalog flag sfsel_in_mux is set and as before when
\* it is not, and every other bit of the register and every other register
\* holds what it held before
C20_SetMuxFrame ==
  (last.op = "set_mux" /\ last.ret = "OK") =>
    /\ Cardinality(Writes(last.io)) = 1
    /\ last.io[1] = <<"r", LastG.mux_bank, LastG.mux_reg>>
    /\ FieldOf(regs[MuxAddr(LastG)], LastG.mux_bit, 2)
         = mux_slot(LastG, last.function)
    /\ (Sd.sfsel_in_mux /\ LastG.sfsel_bit >= 0) =>
         LastG.sfsel_bit \in regs[MuxAddr(LastG)]
    /\ regs[MuxAddr(LastG)] \ MuxWritable(LastG)
         = last.pre[MuxAddr(LastG)] \ MuxWritable(LastG)
    /\ \A a \in DOMAIN regs : a # MuxAddr(LastG) => regs[a] = last.pre[a]

\* the state in which C20 fails: set_mux on a group without an SFIO-select
\* bit has set bit 31 of the mux register
C20_StrayBit ==
  /\ last.op = "set_mux"
  /\ last.ret = "OK"
  /\ Sd.sfsel_in_mux
  /\ LastG.sfsel_bit < 0
  /\ 31 \notin last.pre[MuxAddr(LastG)]
  /\ 31 \in regs[MuxAddr(LastG)]

\* the group of the two racing requests and its mux register
RaceG == Sd.groups[race.group]

RaceReg == regs[MuxAddr(RaceG)]

\* the mux field holds the slot request A selected
RaceMuxHolds ==
  FieldOf(RaceReg, RaceG.mux_bit, 2) = mux_slot(RaceG, race.function)

\* the field of request B holds the value it asked for
RaceConfHolds ==
  FieldOf(RaceReg, Located(RaceG, ItemParam(race.config)).bit,
          Located(RaceG, ItemParam(race.config)).width)
    = Expected(RaceG, race.config)

\* what either request alone makes of the register as it was before both
RaceAlone ==
  { r.regs[MuxAddr(RaceG)] :
      r \in tegra_pinctrl_set_mux(Sd, race.function, race.group,
                                  RaceView(race.orig)) }
    \cup { group_set_one(Sd, RaceG, race.config,
                         RaceView(race.orig)).regs[MuxAddr(RaceG)] }

\* C15: when a set_mux and a group_set on different fields of one mux
\* register have both completed and neither read the register between the
\* read and the write of the other, the mux field holds the selected slot
\* and the configuration field holds the value set, in either order; when
\* the two read-then-write pairs overlapped, the register holds what the
\* later writer alone makes of the value before both
C15_SerializedKeepsBoth ==
  (race.pcA = "done" /\ race.pcB = "done") =>
    /\ ~race.overlapped => RaceMuxHolds /\ RaceConfHolds
    /\ race.overlapped => RaceReg \in RaceAlone

\* both requests ran one after the other and both changed their field
C15_Witness ==
  /\ race.pcA = "done"
  /\ race.pcB = "done"
  /\ ~race.overlapped
  /\ FieldOf(race.orig, RaceG.mux_bit, 2) # mux_slot(RaceG, race.function)
  /\ FieldOf(race.orig, Located(RaceG, ItemParam(race.config)).bit,
             Located(RaceG, ItemParam(race.config)).width)
       # Expected(RaceG, race.config)
  /\ RaceMuxHolds
  /\ RaceConfHolds

\* an interleaving that loses the update of one request
C15_LostUpdate ==
  /\ race.pcA = "done"
  /\ race.pcB = "done"
  /\ race.overlapped
  /\ RaceMuxHolds
  /\ ~RaceConfHolds

\* C21: a step that grants a GPIO request on the pin of a single-pin group
\* with a mux register first reads that register and stores the value in
\* the shadow slot of the pin; when the catalog flag sfsel_in_mux is set it
\* then writes the register once, with the SFIO-select bit cleared and
\* every other bit as read; with the flag clear it writes no register; the
\* shadow slots of other pins and all other registers stay as they were
C21_GrantedGpioRequest ==
  [][ (phase = "ready" /\ phase' = "held" /\ LastG'.mux_reg >= 0) =>
        /\ last'.op = "gpio_request"
        /\ last'.ret = "OK"
        /\ last'.io[1] = <<"r", LastG'.mux_bank, LastG'.mux_reg>>
        /\ gpio_conf'[last'.out] = regs[MuxAddr(LastG')]
        /\ \A o \in DOMAIN gpio_conf :
             o # last'.out => gpio_conf'[o] = gpio_conf[o]
        /\ \A a \in DOMAIN regs : a # MuxAddr(LastG') => regs'[a] = regs[a]
        /\ IF Sd.sfsel_in_mux
           THEN /\ Cardinality(Writes(last'.io)) = 1
                /\ LastG'.sfsel_bit >= 0
                /\ regs'[MuxAddr(LastG')]
                     = regs[MuxAddr(LastG')] \ {LastG'.sfsel_bit}
           ELSE /\ Writes(last'.io) = {}
                /\ regs' = regs ]_vars

C21_Witness ==
  /\ phase = "held"
  /\ last.op = "gpio_request"
  /\ last.ret = "OK"
  /\ Sd.sfsel_in_mux
  /\ LastG.sfsel_bit \in last.pre[MuxAddr(LastG)]
  /\ gpio_conf[last.out] = last.pre[MuxAddr(LastG)]
  /\ regs[MuxAddr(LastG)] = last.pre[MuxAddr(LastG)] \ {LastG.sfsel_bit}
  /\ regs[MuxAddr(LastG)] # {}

\* the rows of cfg_params[], in table order, whose parameter the group
\* supports
SupportedRows(g) ==
  SelectSeq([i \in DOMAIN cfg_params |-> i],
            LAMBDA i : Supported(g, cfg_params[i].param))

\* C22: the dump of a group prints one entry for every row of the property
\* table whose parameter is supported on the group, in table order, and
\* none for the others; the name of an entry is the property name without
\* its prefix up to and including the comma; the entry of the function
\* property shows the name of the function in the slot of the group that
\* the 2-bit mux field selects; the dump reads one register per entry and
\* writes none
C22_DumpEntries ==
  last.op = "dbg_show" =>
    /\ Len(last.out) = Len(SupportedRows(LastG))
    /\ \A k \in DOMAIN last.out :
         LET row == cfg_params[SupportedRows(LastG)[k]]
         IN /\ nvidia_comma \o last.out[k].name = row.property
            /\ \A j \in DOMAIN last.out[k].name : last.out[k].name[j] # ","
            /\ row.param = "FUNCTION" =>
                 last.out[k].text
                   = LastG.funcs[FieldOf(regs[MuxAddr(LastG)],
                                         LastG.mux_bit, 2) + 1]
            /\ row.param # "FUNCTION" => last.out[k].text = ""
    /\ Len(last.io) = Len(last.out)
    /\ NotWritten

C22_Witness ==
  /\ last.op = "dbg_show"
  /\ Len(last.out) > 1
  /\ Len(last.out) < Len(cfg_params)
  /\ \E k \in DOMAIN last.out :
       /\ last.out[k].name = <<"f", "u", "n", "c">>
       /\ last.out[k].val = 1
       /\ last.out[k].text = LastG.funcs[2]
       /\ last.out[k].text \in Functions(soc)
  /\ \E k \in DOMAIN last.out :
       /\ last.out[k].name = <<"i", "o", "-", "h", "v">>
       /\ last.out[k - 1].name = <<"r", "c", "v", "-", "s", "e", "l">>

\* the subnode of the last translation, the rows of it that were read, and
\* the number of maps it gives per group
DtNode == last.req

DtReadRows ==
  SelectSeq([i \in DOMAIN cfg_params |-> i], LAMBDA i : DtNode.props[i] >= 0)

DtPerGroup ==
  (IF DtNode.function # "" THEN 1 ELSE 0)
    + (IF DtReadRows # << >> THEN 1 ELSE 0)

\* C23: a subnode that lists n groups gives, for each group in listed
\* order, a mux map exactly when a function name is present, followed by a
\* configs map exactly when at least one property of the table was read,
\* n x ([function present] + [configs non-empty]) maps in all; the configs
\* of a map are the rows read, in the order of the table, each with the
\* parameter of its row and the value read, and the rows rcv-sel and io-hv
\* both carry the parameter RCV_SEL
C23_SubnodeMaps ==
  (last.op = "dt_subnode_to_map" /\ last.ret = "OK") =>
    /\ Len(last.out.maps) = Len(DtNode.pins) * DtPerGroup
    /\ last.out.reserved = Len(last.out.maps)
    /\ \A k \in DOMAIN DtNode.pins :
         /\ DtNode.function # "" =>
              last.out.maps[(k - 1) * DtPerGroup + 1]
                = [type |-> "MUX_GROUP", group |-> DtNode.pins[k],
                   function |-> DtNode.function, configs |-> << >>]
         /\ DtReadRows # << >> =>
              LET m == last.out.maps[k * DtPerGroup]
              IN /\ m.type = "CONFIGS_GROUP"
                 /\ m.group = DtNode.pins[k]
                 /\ Len(m.configs) = Len(DtReadRows)
                 /\ \A j \in DOMAIN m.configs :
                      /\ ItemParam(m.configs[j])
                           = cfg_params[DtReadRows[j]].param
                      /\ ItemArg(m.configs[j]) = DtNode.props[DtReadRows[j]]
                      /\ DtReadRows[j] \in {7, 8} =>
                           ItemParam(m.configs[j]) = "RCV_SEL"

C23_Witness ==
  /\ last.op = "dt_subnode_to_map"
  /\ last.ret = "OK"
  /\ Len(DtNode.pins) = 2
  /\ DtNode.pins[1] # DtNode.pins[2]
  /\ DtNode.function # ""
  /\ DtNode.props[2] = PROP_UNREADABLE
  /\ DtReadRows = <<1, 7, 8>>
  /\ Len(last.out.maps) = 4
  /\ last.out.maps[3].type = "MUX_GROUP"
  /\ last.out.maps[4].group = DtNode.pins[2]
  /\ Len(last.out.maps[4].configs) = 3
  /\ ItemParam(last.out.maps[4].configs[2]) = "RCV_SEL"
  /\ ItemParam(last.out.maps[4].configs[3]) = "RCV_SEL"

\* the groups that have a lock bit in a mux register
LockGroups ==
  {i \in DOMAIN Sd.groups :
     Sd.groups[i].mux_reg >= 0 /\ Sd.groups[i].lock_bit >= 0}

\* the k-th access of the record is a write to the mux register of g
WritesMuxOf(rec, k, g) ==
  /\ k \in Writes(rec.io)
  /\ <<rec.io[k][2], rec.io[k][3]>> = MuxAddr(g)

\* the lock bit of g reads 1 just before the k-th access of the record,
\* which ran on the registers rg
LockedBefore(rec, k, g, rg) ==
  \/ g.lock_bit \in rg[MuxAddr(g)]
  \/ \E j \in 1..(k - 1) :
       WritesMuxOf(rec, j, g) /\ g.lock_bit \in rec.io[j][4]

\* the operations that write back a word saved earlier
WritesBack == {"gpio_free", "resume"}

\* C24: once the lock bit of a group reads 1, no group_set, set_mux, GPIO
\* request or parked-bit clearing writes its register with the lock bit 0;
\* a GPIO release and a resume write the word saved at the request or at
\* suspend as it was saved
C24_LockKeptByUpdates ==
  [][ \A i \in LockGroups, k \in DOMAIN last'.io :
        ( /\ WritesMuxOf(last', k, Sd.groups[i])
          /\ LockedBefore(last', k, Sd.groups[i], regs) ) =>
          IF last'.op \in WritesBack
          THEN last'.io[k][4]
                 = (IF last'.op = "resume"
                    THEN backup_regs[MuxAddr(Sd.groups[i])]
                    ELSE gpio_conf[last'.out])
          ELSE Sd.groups[i].lock_bit \in last'.io[k][4] ]_vars

C24_Witness ==
  /\ last.op \in {"set_mux", "group_set"}
  /\ last.group \in LockGroups
  /\ LastG.lock_bit \in last.pre[MuxAddr(LastG)]
  /\ \E k \in Writes(last.io) :
       /\ WritesMuxOf(last, k, LastG)
       /\ last.io[k][4] # last.pre[MuxAddr(LastG)]
       /\ LastG.lock_bit \in last.io[k][4]
  /\ prev.op = "gpio_request"
  /\ prev.ret = "OK"

\* C24 as stated: a GPIO release and a resume included, no operation writes
\* the register of a group whose lock bit reads 1 with the lock bit 0
C24_LockNeverWrittenZero ==
  [][ \A i \in LockGroups, k \in DOMAIN last'.io :
        ( /\ WritesMuxOf(last', k, Sd.groups[i])
          /\ LockedBefore(last', k, Sd.groups[i], regs) ) =>
          Sd.groups[i].lock_bit \in last'.io[k][4] ]_vars

\* C25: a release that writes a register writes the word that the granted
\* request for the same pin saved, and that request is the operation just
\* before it, so the word was saved and not used by a release before (the
\* specification SpecGpio issues only requests and releases, and a release
\* that follows a granted request follows it directly)
C25_ReleaseWritesSavedWord ==
  (last.op = "gpio_free" /\ Writes(last.io) # {}) =>
    /\ prev.op = "gpio_request"
    /\ prev.ret = "OK"
    /\ prev.out = last.out
    /\ \A k \in Writes(last.io) : last.io[k][4] = prev.pre[MuxAddr(LastG)]

\* the state in which C25 fails: the first operation after probe is a
\* release, and it has written the zero-filled shadow word over a register
\* that held another value
C25_UnsavedWordWritten ==
  /\ last.op = "gpio_free"
  /\ prev.op = "probe"
  /\ Writes(last.io) # {}
  /\ last.pre[MuxAddr(LastG)] # {}
  /\ regs[MuxAddr(LastG)] = {}

\* C26: while probe builds the index, the number of names already appended
\* is below 4 x ngroups at every append, so the BUG_ON never fires; checked
\* after every probe, failed ones included
C26_IndexWithinBounds ==
  /\ phase # "bug"
  /\ (phase # "boot" \/ last.op = "probe_failed") =>
       /\ \A k \in DOMAIN index_appends_from(Sd, 1) :
            k - 1 < 4 * Len(Sd.groups)
       /\ \A f \in Functions(soc) :
            Len(func_groups[f].groups) <= Len(Sd.groups)

C26_Witness ==
  /\ phase = "ready"
  /\ last.op = "probe"
  /\ prev.op = "probe_failed"
  /\ Len(index_appends_from(Sd, 1)) = 4 * Len(Sd.groups)
  /\ \E f \in Functions(soc) : Len(func_groups[f].groups) > 1

\* C27: after any number of calls of probe the group count of every
\* function equals the number of names in its group list, the number of
\* mux groups one of whose slots holds the function
C27_CountMatchesList ==
  (phase # "boot" \/ last.op = "probe_failed") =>
    \A f \in Functions(soc) :
      /\ func_groups[f].ngroups = Len(func_groups[f].groups)
      /\ func_groups[f].groups = NamesOf(MuxSlotGroups(f))

\* the state in which C27 fails: after one failed probe and its retry a
\* function is reported with twice as many groups as its list holds
C27_CountDoubled ==
  /\ phase = "ready"
  /\ last.op = "get_func_groups"
  /\ nops = 1
  /\ Len(last.out.groups) = 2
  /\ last.out.ngroups = 4

\* the 2-bit function-select field of the mux register of a group, in the
\* registers rg
MuxField(rg, g) == FieldOf(rg[MuxAddr(g)], g.mux_bit, 2)

\* C28: on the tegra234 catalog a successful group_set of one supported
\* parameter other than the function leaves the function-select field of
\* the mux register of every group as it was
C28_ConfigKeepsMuxField ==
  ( /\ soc = "tegra234"
    /\ SingleSet(last)
    /\ last.ret = "OK"
    /\ ItemParam(last.configs[1]) # "FUNCTION" ) =>
    \A i \in DOMAIN Sd.groups :
      Sd.groups[i].mux_reg >= 0 =>
        MuxField(regs, Sd.groups[i]) = MuxField(last.pre, Sd.groups[i])

\* the state in which C28 fails: setting open-drain on a tegra234 group has
\* changed the function-select field of its mux register
C28_MuxFieldChanged ==
  /\ soc = "tegra234"
  /\ SingleSet(last)
  /\ last.ret = "OK"
  /\ ItemParam(last.configs[1]) = "OPEN_DRAIN"
  /\ Located(LastG, "OPEN_DRAIN").bit = LastG.mux_bit
  /\ MuxField(regs, LastG) # MuxField(last.pre, LastG)

\* the same through pad power: its zero-filled location is bit 0 of the
\* register at offset 0 of bank 0, the mux register of another group
C28_OtherMuxFieldChanged ==
  /\ soc = "tegra234"
  /\ SingleSet(last)
  /\ last.ret = "OK"
  /\ ItemParam(last.configs[1]) = "PAD_POWER"
  /\ \E i \in DOMAIN Sd.groups :
       /\ i # last.group
       /\ MuxField(regs, Sd.groups[i]) # MuxField(last.pre, Sd.groups[i])

\* C29: a successful set_mux on a group that has a mux register and no
\* SFIO-select bit, in a catalog with sfsel_in_mux set, changes only the
\* 2-bit mux field of that register
C29_NoSfselBitNoOtherChange ==
  ( /\ last.op = "set_mux"
    /\ last.ret = "OK"
    /\ Sd.sfsel_in_mux
    /\ LastG.sfsel_bit < 0 ) =>
    /\ regs[MuxAddr(LastG)] \ (LastG.mux_bit..(LastG.mux_bit + 1))
         = last.pre[MuxAddr(LastG)] \ (LastG.mux_bit..(LastG.mux_bit + 1))
    /\ \A a \in DOMAIN regs : a # MuxAddr(LastG) => regs[a] = last.pre[a]

\* the state in which C29 fails: selecting eqos on eqos_comp, the shift by
\* sfsel_bit = -1 taken modulo 32 has put 0x80000000 into the register
C29_ShiftByMinusOne ==
  /\ last.op = "set_mux"
  /\ last.ret = "OK"
  /\ LastG.name = "eqos_comp"
  /\ last.function = "eqos"
  /\ last.pre[MuxAddr(LastG)] = {}
  /\ regs[MuxAddr(LastG)] = {31}

\* what group_get returns for the parameter of the k-th entry of the last
\* dump, on the registers the dump read
GetForEntry(k) ==
  tegra_pinconf_group_get(
    Sd, last.group,
    TEGRA_PINCONF_PACK(ParamCode(cfg_params[SupportedRows(LastG)[k]].param),
                       0),
    last.pre)

\* C30: every value shown by the dump of a group equals the argument that
\* group_get returns for the same parameter on the same registers; for the
\* function the dump shows the name of the function at the index that
\* group_get returns
C30_DumpEqualsGet ==
  last.op = "dbg_show" =>
    \A k \in DOMAIN last.out :
      /\ GetForEntry(k).ret = "OK"
      /\ cfg_params[SupportedRows(LastG)[k]].param # "FUNCTION" =>
           last.out[k].val = TEGRA_PINCONF_UNPACK_ARG(GetForEntry(k).out)
      /\ cfg_params[SupportedRows(LastG)[k]].param = "FUNCTION" =>
           last.out[k].text
             = LastG.funcs[TEGRA_PINCONF_UNPACK_ARG(GetForEntry(k).out) + 1]

\* the state in which C30 fails: the dump shows pad-power as 1 where
\* group_get returns 0
C30_PadPowerShownRaw ==
  /\ last.op = "dbg_show"
  /\ \E k \in DOMAIN last.out :
       /\ last.out[k].name = <<"p", "a", "d", "-", "p", "o", "w", "e", "r">>
       /\ last.out[k].val = 1
       /\ TEGRA_PINCONF_UNPACK_ARG(GetForEntry(k).out) = 0

\* every entry but the one of pad power agrees with group_get
C30_AllButPadPower ==
  last.op = "dbg_show" =>
    \A k \in DOMAIN last.out :
      cfg_params[SupportedRows(LastG)[k]].param
        \notin {"FUNCTION", "PAD_POWER"} =>
          last.out[k].val = TEGRA_PINCONF_UNPACK_ARG(GetForEntry(k).out)

====
